---- MODULE Spec2Model ----
(***************************************************************************)
(* Object lifetime, weak references, trashcan and thread/interpreter       *)
(* state of the runtime (Objects/object.c, Objects/weakrefobject.c,        *)
(* Python/pystate.c).  The module holds several independent state          *)
(* machines; each specification runs one of them and keeps the variables   *)
(* of the others at their idle values.                                     *)
(***************************************************************************)
EXTENDS Integers, Sequences, FiniteSets, TLC

VARIABLES
    \* ---- split-counter object header (Py_GIL_DISABLED), object.c ----
    ob_tid,         \* owning thread id, 0 when unowned
    ob_ref_local,   \* local count, written by the owner only
    ob_ref_shared,  \* shared count << 2 | flags
    rpc,            \* rpc[t]: position and locals of thread t inside a refcount routine
    held,           \* held[t]: strong references thread t currently owns
    brc_queue,      \* number of entries of the object in its owner's merge queue
    n_dealloc,      \* how many times _Py_Dealloc ran on the object
    n_acquire,      \* references ever created (new_reference + Py_INCREF)
    n_release       \* Py_DECREF calls begun

refVars == <<ob_tid, ob_ref_local, ob_ref_shared, rpc, held, brc_queue,
             n_dealloc, n_acquire, n_release>>

VARIABLES
    \* ---- single-counter object with a finalizer, object.c ----
    f_refcnt,        \* ob_refcnt
    f_held,          \* strong references held outside the object
    f_pc,            \* "live", "dealloc", "tp_finalize", "undo", "freed", "abort"
    f_ctx,           \* who called tp_finalize: "dealloc" or "direct"
    f_is_gc,         \* _PyType_IS_GC(tp)
    f_has_finalize,  \* tp->tp_finalize != NULL
    f_gc_finalized,  \* _PyGC_FINALIZED(self)
    f_n_dealloc,     \* _Py_Dealloc calls (refcount reached zero through Py_DECREF)
    f_n_resurrect,   \* times PyObject_CallFinalizerFromDealloc returned -1
    f_n_finalize,    \* tp_finalize calls
    f_n_free         \* times the deallocator went on to free the object

finVars == <<f_refcnt, f_held, f_pc, f_ctx, f_is_gc, f_has_finalize, f_gc_finalized,
             f_n_dealloc, f_n_resurrect, f_n_finalize, f_n_free>>

VARIABLES
    \* ---- weak references of one referent O, weakrefobject.c (default build) ----
    w_head,         \* *GET_WEAKREFS_LISTPTR(O): first node of O's weak list, 0 for NULL
    w_node,         \* w_node[n]: the PyWeakReference n
    w_o_refcnt,     \* Py_REFCNT(O)
    w_pc,           \* "run", "callbacks" (inside PyObject_ClearWeakRefs), "returned"
    w_pending,      \* weak references whose callbacks PyObject_ClearWeakRefs still has to call
    w_called,       \* weak references whose callbacks were called, in call order
    w_ret,          \* what the last creation call returned: a weak reference, 0 for NULL
    w_exc,          \* the exception pending in the thread, "" if none
    w_saved,        \* PyObject_ClearWeakRefs: exc, the exception it found pending
    w_tuple,        \* PyObject_ClearWeakRefs: tuple, the weak references whose callbacks it kept
    w_unraisable,   \* weak references whose callbacks were passed to PyErr_WriteUnraisable
    w_born          \* the weak references created with a callback that exist, oldest first

wrVars == <<w_head, w_node, w_o_refcnt, w_pc, w_pending, w_called,
            w_ret, w_exc, w_saved, w_tuple, w_unraisable, w_born>>

VARIABLES
    \* ---- trashcan of one thread, object.c ----
    t_width,          \* children of the root object, each the head of a chain
    t_length,         \* objects in each chain
    t_started,        \* the last reference to the root was dropped
    t_nesting,        \* trash->delete_nesting
    t_later,          \* trash->delete_later, most recently deposited first
    t_stack,          \* native call stack: the deallocators in progress, innermost last
    t_freed,          \* t_freed[c]: objects of chain c whose deallocator body has run
    t_root_freed,     \* times the root's deallocator body has run
    t_deposited,      \* every object ever put on delete_later, in order
    t_drained,        \* every object the drain loop passed to tp_dealloc, in order
    t_failed          \* a failed assertion of the trashcan code, "" if none

trVars == <<t_width, t_length, t_started, t_nesting, t_later, t_stack, t_freed,
            t_root_freed, t_deposited, t_drained, t_failed>>

VARIABLES
    \* ---- runtime, interpreter and thread states, pystate.c ----
    p_debug,          \* the build evaluates assert() (Py_DEBUG), fixed at start
    p_fail,           \* how the process died, kind "none" while it runs
    p_interp,         \* PyInterpreterState structs by address; 1 is _PyRuntime._main_interpreter
    p_ihead,          \* runtime->interpreters.head
    p_main,           \* runtime->interpreters.main
    p_next_id,        \* runtime->interpreters.next_id
    p_auto,           \* runtime->gilstate.autoInterpreterState
    p_ts,             \* PyThreadState structs by address; i is interpreter i's _initial_thread
    p_current,        \* runtime->tstate_current
    p_tss,            \* runtime->autoTSSkey, one slot for each OS thread
    p_gil,            \* OS thread holding the GIL, 0 if it is free
    p_ensure,         \* for each OS thread, its PyGILState_Ensure calls not yet released
    p_wait,           \* for each OS thread, the PyGILState_Ensure blocked on the GIL
    p_completed,      \* for each OS thread, depth of the Ensure/Release nest it completed
                      \* last, if it began without a thread state
    p_zapped,         \* thread states the last PyInterpreterState_Delete found in the list
    p_clears,         \* the runs of PyThreadState_Clear in the last call: the thread state
                      \* cleared and runtime->tstate_current at that moment
    p_ids             \* the ids PyInterpreterState_New gave to interpreters, oldest first

psVars == <<p_debug, p_fail, p_interp, p_ihead, p_main, p_next_id, p_auto, p_ts,
            p_current, p_tss, p_gil, p_ensure, p_wait, p_completed, p_zapped, p_clears, p_ids>>

VARIABLES
    \* ---- cross-interpreter data, pystate.c ----
    x_pc,             \* what has been done with the payload
    x_obj,            \* the object handed to _PyObject_GetCrossInterpreterData
    x_data,           \* the _PyCrossInterpreterData struct
    x_shared,         \* the block data->data points to (struct _shared_bytes_data / _shared_str_data)
    x_ret,            \* result of the last call that returns int
    x_err,            \* exception the last call left pending, "" if none
    x_msg,            \* the message PyErr_Format built for it, in pieces; <<>> if it built none
    x_result,         \* object built by _PyCrossInterpreterData_NewObject
    x_from,           \* interpreter the payload was made in, and the one it was rebuilt in
    x_ran             \* the payload's release: how often it ran, and the current thread
                      \* state and its interpreter's id when it ran

xidVars == <<x_pc, x_obj, x_data, x_shared, x_ret, x_err, x_msg, x_result, x_from, x_ran>>

VARIABLES
    \* ---- weak references raced by dereference and clearing (Py_GIL_DISABLED) ----
    g_loc,            \* g_loc[t]: position and locals of thread t inside PyWeakref_GetRef
    g_view,           \* g_view[t]: what the last PyWeakref_GetRef of thread t returned, and
                      \* the state of the referent at that moment
    g_gets,           \* PyWeakref_GetRef calls begun
    g_mem,            \* the referent's memory: "live", "freed", "reused" (another object)
    g_dpc,            \* position of the referent's deallocator
    g_tuple           \* clear_weakrefs_and_invoke_callbacks_lock_held: tuple

raceVars == <<g_loc, g_view, g_gets, g_mem, g_dpc, g_tuple>>

VARIABLES
    \* ---- the data stack of one thread state, pystate.c ----
    d_debug,          \* the build evaluates assert() (Py_DEBUG), fixed at start
    d_fail,           \* how the process died, kind "none" while it runs
    d_chunks,         \* _PyStackChunk structs by address: previous, size, top
    d_chunk,          \* tstate->datastack_chunk, 0 for NULL
    d_top,            \* tstate->datastack_top
    d_limit,          \* tstate->datastack_limit
    d_frames,         \* the frames pushed and not yet popped, oldest first
    d_root,           \* the first chunk push_chunk allocated, 0 before
    d_ret,            \* what the last _PyThreadState_PushFrame returned
    d_saved           \* for each frame of d_frames, datastack_chunk, datastack_top and
                      \* datastack_limit as they were when its push was called

dsVars == <<d_debug, d_fail, d_chunks, d_chunk, d_top, d_limit, d_frames, d_root, d_ret,
            d_saved>>

VARIABLES
    \* ---- push_chunk sizing a chunk for one frame, pystate.c ----
    k_size,           \* size, the argument of push_chunk
    k_alloc,          \* allocate_size
    k_pc,             \* "test": at the loop condition, "double": in the loop body,
                      \* "done": past the loop, "trap": stopped by an overflow trap
    k_ub              \* a signed int operation has overflowed

szVars == <<k_size, k_alloc, k_pc, k_ub>>

VARIABLES
    \* ---- the registry of snapshot functions, pystate.c ----
    q_head,           \* _PyRuntime.xidregistry.head: the entries, head first,
                      \* each [cls, getdata]
    q_live,           \* the heap types that have not been freed
    q_unreg,          \* the classes unregistered and not registered since
    q_last            \* the last lookup, if it was the last call: [cls, getdata]

regVars == <<q_head, q_live, q_unreg, q_last>>

VARIABLES
    \* ---- one cell shared by several threads, pycore_cell.h ----
    c_ob_ref,         \* cell->ob_ref: an object, 0 for NULL
    c_mutex,          \* the thread inside a critical section of the cell, 0: none
    c_refcnt,         \* the reference count of each object
    c_freed,          \* the objects that were deallocated
    c_own,            \* the references each thread owns, per object
    c_pc,             \* where each thread is in its call
    c_op,             \* the call each thread is in: "swap", "set", "get" or ""
    c_val,            \* value, the argument of the call
    c_loc,            \* old_value of PyCell_SwapTakeRef, res of PyCell_GetRef
    c_uaf,            \* a call has touched a deallocated object
    c_gets            \* calls of PyCell_GetRef so far

cellVars == <<c_ob_ref, c_mutex, c_refcnt, c_freed, c_own, c_pc, c_op, c_val, c_loc,
              c_uaf, c_gets>>

\* Each machine leaves the variables of the others alone.
FrameRef == UNCHANGED <<finVars, wrVars, trVars, psVars, xidVars, raceVars, dsVars, szVars,
    regVars, cellVars>>
FrameFin == UNCHANGED <<refVars, wrVars, trVars, psVars, xidVars, raceVars, dsVars, szVars,
    regVars, cellVars>>
FrameWr == UNCHANGED <<refVars, finVars, trVars, psVars, xidVars, raceVars, dsVars, szVars,
    regVars, cellVars>>
FrameTr == UNCHANGED <<refVars, finVars, wrVars, psVars, xidVars, raceVars, dsVars, szVars,
    regVars, cellVars>>
FramePs == UNCHANGED <<refVars, finVars, wrVars, trVars, xidVars, raceVars, dsVars, szVars,
    regVars, cellVars>>
FrameXid == UNCHANGED <<refVars, finVars, wrVars, trVars, raceVars, dsVars, szVars,
    regVars, cellVars>>
FrameRace == UNCHANGED <<finVars, trVars, psVars, xidVars, dsVars, szVars,
    regVars, cellVars>>
FrameDs == UNCHANGED <<refVars, finVars, wrVars, trVars, psVars, xidVars, raceVars, szVars,
    regVars, cellVars>>
FrameSz == UNCHANGED <<refVars, finVars, wrVars, trVars, psVars, xidVars, raceVars, dsVars,
    regVars, cellVars>>

FrameReg == UNCHANGED <<refVars, finVars, wrVars, trVars, psVars, xidVars, raceVars, dsVars,
    szVars, cellVars>>
FrameCell == UNCHANGED <<refVars, finVars, wrVars, trVars, psVars, xidVars, raceVars, dsVars,
    szVars, regVars>>

vars == <<refVars, finVars, wrVars, trVars, psVars, xidVars, raceVars, dsVars,
         szVars, regVars, cellVars>>

(***************************************************************************)
(* Bounds of the model.                                                    *)
(***************************************************************************)
NThreads == 3       \* threads sharing the object; thread 1 creates (owns) it
MaxAcquire == 3     \* references ever created on the object

Threads == 1..NThreads

(***************************************************************************)
(* Split-counter encoding of ob_ref_shared (Include/object.h).             *)
(***************************************************************************)
Py_REF_SHARED_SHIFT == 2
Py_REF_MAYBE_WEAKREF == 1
Py_REF_QUEUED == 2
Py_REF_MERGED == 3
Py_REF_SHARED_FLAG_MASK == 3

FlagRadix == 2 ^ Py_REF_SHARED_SHIFT
\* Py_ARITHMETIC_RIGHT_SHIFT(Py_ssize_t, shared, _Py_REF_SHARED_SHIFT)
SharedCount(shared) == shared \div FlagRadix
\* shared & _Py_REF_SHARED_FLAG_MASK
SharedFlags(shared) == shared % FlagRadix
\* _Py_REF_SHARED(refcnt, flags)
Py_REF_SHARED(refcnt, flags) == refcnt * FlagRadix + flags

Idle == [pc |-> "idle", shared |-> 0, new_shared |-> 0, queue |-> FALSE, refcnt |-> 0]

At(t, where) == rpc[t].pc = where
Goto(t, where) == rpc' = [rpc EXCEPT ![t].pc = where]

RefInit ==
    /\ ob_tid = 1
    /\ ob_ref_local = 1
    /\ ob_ref_shared \in {0, Py_REF_MAYBE_WEAKREF}
    /\ rpc = [t \in Threads |-> Idle]
    /\ held = [t \in Threads |-> IF t = 1 THEN 1 ELSE 0]
    /\ brc_queue = 0
    /\ n_dealloc = 0
    /\ n_acquire = 1
    /\ n_release = 0

RefIdle ==
    /\ ob_tid = 0
    /\ ob_ref_local = 0
    /\ ob_ref_shared = 0
    /\ rpc = <<>>
    /\ held = <<>>
    /\ brc_queue = 0
    /\ n_dealloc = 0
    /\ n_acquire = 0
    /\ n_release = 0

\* Py_INCREF: the owner bumps the local count, any other thread adds one
\* reference to the shared field atomically.
Py_INCREF(t) ==
    /\ FrameRef
    /\ At(t, "idle")
    /\ held[t] >= 1
    /\ n_acquire < MaxAcquire
    /\ IF ob_tid = t
          THEN /\ ob_ref_local' = ob_ref_local + 1
               /\ UNCHANGED ob_ref_shared
          ELSE /\ ob_ref_shared' = ob_ref_shared + FlagRadix
               /\ UNCHANGED ob_ref_local
    /\ held' = [held EXCEPT ![t] = @ + 1]
    /\ n_acquire' = n_acquire + 1
    /\ UNCHANGED <<ob_tid, rpc, brc_queue, n_dealloc, n_release>>

\* Ownership transfer ("steal"): a reference changes hands, no counter moves.
Steal(t, u) ==
    /\ FrameRef
    /\ At(t, "idle")
    /\ t # u
    /\ held[t] >= 1
    /\ held' = [held EXCEPT ![t] = @ - 1, ![u] = @ + 1]
    /\ UNCHANGED <<ob_tid, ob_ref_local, ob_ref_shared, rpc, brc_queue,
                   n_dealloc, n_acquire, n_release>>

\* Py_DECREF: the owner decrements the local count and merges when it reaches
\* zero; any other thread goes to _Py_DecRefShared.
Py_DECREF(t) ==
    /\ FrameRef
    /\ At(t, "idle")
    /\ held[t] >= 1
    /\ held' = [held EXCEPT ![t] = @ - 1]
    /\ n_release' = n_release + 1
    /\ IF ob_tid = t
          THEN /\ ob_ref_local' = ob_ref_local - 1
               /\ rpc' = [rpc EXCEPT ![t].pc =
                            IF ob_ref_local - 1 = 0 THEN "mz_store_tid" ELSE "idle"]
          ELSE /\ UNCHANGED ob_ref_local
               /\ Goto(t, "drs_load")
    /\ UNCHANGED <<ob_tid, ob_ref_shared, brc_queue, n_dealloc, n_acquire>>

\* _Py_Dealloc(op)
Py_Dealloc == n_dealloc' = n_dealloc + 1

\* ---- _Py_DecRefSharedDebug ----
\* (variant: the MAYBE_WEAKREF flag is not treated as a zero count)
DecRefShared_ShouldQueue_ZeroOnly(shared) == shared = 0

DecRefShared_ShouldQueue(shared) == shared = 0 \/ shared = Py_REF_MAYBE_WEAKREF

\* (variant: the count is decremented even when the object has to be queued)
DecRefShared_NewShared_AlwaysSubtract(shared) == shared - FlagRadix

DecRefShared_NewShared(shared) ==
    IF DecRefShared_ShouldQueue(shared)
       THEN Py_REF_QUEUED
       ELSE shared - FlagRadix

DecRefShared_Load(t) ==
    /\ FrameRef
    /\ At(t, "drs_load")
    /\ rpc' = [rpc EXCEPT ![t].pc = "drs_cas", ![t].shared = ob_ref_shared]
    /\ UNCHANGED <<ob_tid, ob_ref_local, ob_ref_shared, held, brc_queue,
                   n_dealloc, n_acquire, n_release>>

DecRefShared_CAS(t) ==
    /\ FrameRef
    /\ At(t, "drs_cas")
    /\ LET shared == rpc[t].shared
           new_shared == DecRefShared_NewShared(shared)
       IN IF ob_ref_shared = shared
             THEN /\ ob_ref_shared' = new_shared
                  /\ rpc' = [rpc EXCEPT ![t].pc = "drs_after",
                                        ![t].new_shared = new_shared,
                                        ![t].queue = DecRefShared_ShouldQueue(shared)]
             ELSE /\ rpc' = [rpc EXCEPT ![t].shared = ob_ref_shared]
                  /\ UNCHANGED ob_ref_shared
    /\ UNCHANGED <<ob_tid, ob_ref_local, held, brc_queue, n_dealloc, n_acquire, n_release>>

\* _Py_brc_queue_object: the object is pushed on its owner's merge queue.
Py_brc_queue_object == brc_queue' = brc_queue + 1

DecRefShared_After(t) ==
    /\ FrameRef
    /\ At(t, "drs_after")
    /\ IF rpc[t].queue
          THEN Py_brc_queue_object /\ UNCHANGED n_dealloc
          ELSE IF rpc[t].new_shared = Py_REF_MERGED
                  THEN Py_Dealloc /\ UNCHANGED brc_queue
                  ELSE UNCHANGED <<brc_queue, n_dealloc>>
    /\ rpc' = [rpc EXCEPT ![t] = Idle]
    /\ UNCHANGED <<ob_tid, ob_ref_local, ob_ref_shared, held, n_acquire, n_release>>

\* ---- _Py_MergeZeroLocalRefcount ----
MergeZeroLocal_NewShared(shared) ==
    (shared - SharedFlags(shared)) + Py_REF_MERGED

MergeZeroLocal_StoreTid(t) ==
    /\ FrameRef
    /\ At(t, "mz_store_tid")
    /\ ob_tid' = 0
    /\ Goto(t, "mz_load")
    /\ UNCHANGED <<ob_ref_local, ob_ref_shared, held, brc_queue, n_dealloc,
                   n_acquire, n_release>>

MergeZeroLocal_Load(t) ==
    /\ FrameRef
    /\ At(t, "mz_load")
    /\ IF ob_ref_shared = 0
          THEN /\ Py_Dealloc
               /\ rpc' = [rpc EXCEPT ![t] = Idle]
          ELSE /\ rpc' = [rpc EXCEPT ![t].pc = "mz_cas", ![t].shared = ob_ref_shared]
               /\ UNCHANGED n_dealloc
    /\ UNCHANGED <<ob_tid, ob_ref_local, ob_ref_shared, held, brc_queue,
                   n_acquire, n_release>>

MergeZeroLocal_CAS(t) ==
    /\ FrameRef
    /\ At(t, "mz_cas")
    /\ LET shared == rpc[t].shared
           new_shared == MergeZeroLocal_NewShared(shared)
       IN IF ob_ref_shared = shared
             THEN /\ ob_ref_shared' = new_shared
                  /\ IF new_shared = Py_REF_MERGED
                        THEN Py_Dealloc
                        ELSE UNCHANGED n_dealloc
                  /\ rpc' = [rpc EXCEPT ![t] = Idle]
             ELSE /\ rpc' = [rpc EXCEPT ![t].shared = ob_ref_shared]
                  /\ UNCHANGED <<ob_ref_shared, n_dealloc>>
    /\ UNCHANGED <<ob_tid, ob_ref_local, held, brc_queue, n_acquire, n_release>>

\* ---- _Py_ExplicitMergeRefcount(op, extra), run by the owner on a queued object ----
ExplicitMerge_Refcnt(shared, local, extra) == SharedCount(shared) + local + extra

\* merge_queued_objects pops the object and calls _Py_ExplicitMergeRefcount(ob, -1)
MergeQueued_Pop(t) ==
    /\ FrameRef
    /\ At(t, "idle")
    /\ t = 1
    /\ brc_queue > 0
    /\ brc_queue' = brc_queue - 1
    /\ rpc' = [rpc EXCEPT ![t].pc = "em_cas", ![t].shared = ob_ref_shared]
    /\ UNCHANGED <<ob_tid, ob_ref_local, ob_ref_shared, held, n_dealloc,
                   n_acquire, n_release>>

ExplicitMerge_CAS(t) ==
    /\ FrameRef
    /\ At(t, "em_cas")
    /\ LET shared == rpc[t].shared
           refcnt == ExplicitMerge_Refcnt(shared, ob_ref_local, -1)
           new_shared == Py_REF_SHARED(refcnt, Py_REF_MERGED)
       IN IF ob_ref_shared = shared
             THEN /\ ob_ref_shared' = new_shared
                  /\ rpc' = [rpc EXCEPT ![t].pc = "em_store", ![t].refcnt = refcnt]
             ELSE /\ rpc' = [rpc EXCEPT ![t].shared = ob_ref_shared]
                  /\ UNCHANGED ob_ref_shared
    /\ UNCHANGED <<ob_tid, ob_ref_local, held, brc_queue, n_dealloc, n_acquire, n_release>>

\* the two relaxed stores that end _Py_ExplicitMergeRefcount, then the caller's
\* "if (refcount == 0) _Py_Dealloc(ob)"
ExplicitMerge_Store(t) ==
    /\ FrameRef
    /\ At(t, "em_store")
    /\ ob_ref_local' = 0
    /\ ob_tid' = 0
    /\ IF rpc[t].refcnt = 0 THEN Py_Dealloc ELSE UNCHANGED n_dealloc
    /\ rpc' = [rpc EXCEPT ![t] = Idle]
    /\ UNCHANGED <<ob_ref_shared, held, brc_queue, n_acquire, n_release>>

RefNext ==
    \/ \E t \in Threads : Py_INCREF(t)
    \/ \E t, u \in Threads : Steal(t, u)
    \/ \E t \in Threads : Py_DECREF(t)
    \/ \E t \in Threads : DecRefShared_Load(t)
    \/ \E t \in Threads : DecRefShared_CAS(t)
    \/ \E t \in Threads : DecRefShared_After(t)
    \/ \E t \in Threads : MergeZeroLocal_StoreTid(t)
    \/ \E t \in Threads : MergeZeroLocal_Load(t)
    \/ \E t \in Threads : MergeZeroLocal_CAS(t)
    \/ \E t \in Threads : MergeQueued_Pop(t)
    \/ \E t \in Threads : ExplicitMerge_CAS(t)
    \/ \E t \in Threads : ExplicitMerge_Store(t)

\* ---- C1 ----
RECURSIVE SumHeld(_)
SumHeld(n) == IF n = 0 THEN 0 ELSE held[n] + SumHeld(n - 1)

RefQuiescent ==
    /\ \A t \in Threads : rpc[t].pc = "idle"
    /\ brc_queue = 0

\* C1: with N acquires and N releases the destructor runs exactly once, and
\* never before the Nth release has been issued: _Py_Dealloc never runs twice,
\* it has not run while a reference is still held, and once every reference
\* is released and every routine has returned it has run.
C1_DeallocExactlyOnceAfterLastRelease ==
    /\ n_dealloc <= 1
    /\ (n_dealloc = 1 => n_release = n_acquire)
    /\ (RefQuiescent /\ n_release = n_acquire => n_dealloc = 1)

C1_Witness ==
    /\ RefQuiescent
    /\ n_acquire = MaxAcquire
    /\ n_release = n_acquire
    /\ n_dealloc = 1
    /\ SharedFlags(ob_ref_shared) = Py_REF_MERGED

(***************************************************************************)
(* Single-counter object with a finalizer (object.c, default build).       *)
(***************************************************************************)
MaxFinRefs == 2        \* references held at once
MaxResurrect == 2      \* resurrections explored

FinInit ==
    /\ f_refcnt = 1
    /\ f_held = 1
    /\ f_pc = "live"
    /\ f_ctx = "none"
    /\ f_is_gc \in BOOLEAN
    /\ f_has_finalize \in BOOLEAN
    /\ f_gc_finalized = FALSE
    /\ f_n_dealloc = 0
    /\ f_n_resurrect = 0
    /\ f_n_finalize = 0
    /\ f_n_free = 0

FinIdle ==
    /\ f_refcnt = 0
    /\ f_held = 0
    /\ f_pc = "idle"
    /\ f_ctx = "none"
    /\ f_is_gc = FALSE
    /\ f_has_finalize = FALSE
    /\ f_gc_finalized = FALSE
    /\ f_n_dealloc = 0
    /\ f_n_resurrect = 0
    /\ f_n_finalize = 0
    /\ f_n_free = 0

\* Py_INCREF by a holder of a reference
Fin_Py_INCREF ==
    /\ FrameFin
    /\ f_pc = "live"
    /\ f_held >= 1
    /\ f_held < MaxFinRefs
    /\ f_refcnt' = f_refcnt + 1
    /\ f_held' = f_held + 1
    /\ UNCHANGED <<f_pc, f_ctx, f_is_gc, f_has_finalize, f_gc_finalized,
                   f_n_dealloc, f_n_resurrect, f_n_finalize, f_n_free>>

\* Py_DECREF; at zero _Py_Dealloc calls the type's tp_dealloc
Fin_Py_DECREF ==
    /\ FrameFin
    /\ f_pc \in {"live", "freed"}
    /\ f_held >= 1
    /\ f_refcnt' = f_refcnt - 1
    /\ f_held' = f_held - 1
    /\ IF f_refcnt - 1 = 0
          THEN f_pc' = "dealloc" /\ f_n_dealloc' = f_n_dealloc + 1
          ELSE UNCHANGED <<f_pc, f_n_dealloc>>
    /\ UNCHANGED <<f_ctx, f_is_gc, f_has_finalize, f_gc_finalized,
                   f_n_resurrect, f_n_finalize, f_n_free>>

\* (variant: the finalized flag of the collector is not consulted)
CallFinalizer_Runs_Always(has_finalize, is_gc, finalized) == has_finalize

\* PyObject_CallFinalizer: does tp_finalize run?
CallFinalizer_Runs(has_finalize, is_gc, finalized) ==
    has_finalize /\ ~(is_gc /\ finalized)

\* PyObject_CallFinalizerFromDealloc, up to the call of tp_finalize
CallFinalizerFromDealloc_Enter ==
    /\ FrameFin
    /\ f_pc = "dealloc"
    /\ IF f_refcnt # 0
          THEN /\ f_pc' = "abort"
               /\ UNCHANGED <<f_refcnt, f_ctx, f_n_finalize>>
          ELSE /\ f_refcnt' = 1
               /\ IF CallFinalizer_Runs(f_has_finalize, f_is_gc, f_gc_finalized)
                     THEN /\ f_pc' = "tp_finalize"
                          /\ f_ctx' = "dealloc"
                          /\ f_n_finalize' = f_n_finalize + 1
                     ELSE /\ f_pc' = "undo"
                          /\ UNCHANGED <<f_ctx, f_n_finalize>>
    /\ UNCHANGED <<f_held, f_is_gc, f_has_finalize, f_gc_finalized,
                   f_n_dealloc, f_n_resurrect, f_n_free>>

\* PyObject_CallFinalizer called directly (by the collector) on a live object
CallFinalizer_Direct ==
    /\ FrameFin
    /\ f_pc = "live"
    /\ f_held >= 1
    /\ CallFinalizer_Runs(f_has_finalize, f_is_gc, f_gc_finalized)
    /\ f_n_finalize < MaxResurrect + 1
    /\ f_pc' = "tp_finalize"
    /\ f_ctx' = "direct"
    /\ f_n_finalize' = f_n_finalize + 1
    /\ UNCHANGED <<f_refcnt, f_held, f_is_gc, f_has_finalize, f_gc_finalized,
                   f_n_dealloc, f_n_resurrect, f_n_free>>

\* the finalizer stores a new reference to self somewhere
Finalizer_NewRef ==
    /\ FrameFin
    /\ f_pc = "tp_finalize"
    /\ f_held < MaxFinRefs
    /\ f_n_resurrect < MaxResurrect
    /\ f_refcnt' = f_refcnt + 1
    /\ f_held' = f_held + 1
    /\ UNCHANGED <<f_pc, f_ctx, f_is_gc, f_has_finalize, f_gc_finalized,
                   f_n_dealloc, f_n_resurrect, f_n_finalize, f_n_free>>

\* tp_finalize returns into PyObject_CallFinalizer
Finalizer_Return ==
    /\ FrameFin
    /\ f_pc = "tp_finalize"
    /\ f_gc_finalized' = (f_gc_finalized \/ f_is_gc)
    /\ f_pc' = IF f_ctx = "dealloc" THEN "undo" ELSE "live"
    /\ f_ctx' = "none"
    /\ UNCHANGED <<f_refcnt, f_held, f_is_gc, f_has_finalize,
                   f_n_dealloc, f_n_resurrect, f_n_finalize, f_n_free>>

\* (variant: the resurrection check is dropped)
CallFinalizerFromDealloc_Result_Always0(refcnt) == 0

\* result of PyObject_CallFinalizerFromDealloc from the count left after the
\* temporary reference is dropped
CallFinalizerFromDealloc_Result(refcnt) == IF refcnt = 0 THEN 0 ELSE -1

\* PyObject_CallFinalizerFromDealloc after tp_finalize; on 0 the deallocator
\* goes on and frees the object, on -1 it returns and the object lives on
CallFinalizerFromDealloc_Undo ==
    /\ FrameFin
    /\ f_pc = "undo"
    /\ IF f_refcnt <= 0
          THEN /\ f_pc' = "abort"
               /\ UNCHANGED <<f_refcnt, f_n_resurrect, f_n_free>>
          ELSE /\ f_refcnt' = f_refcnt - 1
               /\ IF CallFinalizerFromDealloc_Result(f_refcnt - 1) = 0
                     THEN /\ f_pc' = "freed"
                          /\ f_n_free' = f_n_free + 1
                          /\ UNCHANGED f_n_resurrect
                     ELSE /\ f_pc' = "live"
                          /\ f_n_resurrect' = f_n_resurrect + 1
                          /\ UNCHANGED f_n_free
    /\ UNCHANGED <<f_held, f_ctx, f_is_gc, f_has_finalize, f_gc_finalized,
                   f_n_dealloc, f_n_finalize>>

FinNext ==
    \/ Fin_Py_INCREF
    \/ Fin_Py_DECREF
    \/ CallFinalizerFromDealloc_Enter
    \/ CallFinalizer_Direct
    \/ Finalizer_NewRef
    \/ Finalizer_Return
    \/ CallFinalizerFromDealloc_Undo

\* C2 (as stated): the transition to zero that triggers destruction happens
\* at most once per object.
C2_ZeroTransitionAtMostOnce == f_n_dealloc <= 1

\* C2 (amended): every transition to zero beyond the first follows a
\* resurrection by tp_finalize, the object is freed at most once, and it is
\* freed only when no reference is left.
C2_ZeroTransitionOncePerResurrection ==
    /\ f_n_dealloc <= 1 + f_n_resurrect
    /\ f_n_free <= 1
    /\ (f_pc = "freed" => f_held = 0 /\ f_refcnt = 0)
    /\ (~f_has_finalize => f_n_dealloc <= 1)

C2_Witness ==
    /\ f_pc = "freed"
    /\ f_n_resurrect >= 1
    /\ f_n_dealloc = 1 + f_n_resurrect

(***************************************************************************)
(* Weak references (weakrefobject.c, build without Py_GIL_DISABLED).       *)
(***************************************************************************)
MaxWeakrefs == 3       \* PyWeakReference objects that can exist at once
MaxWrRefcnt == 2       \* strong references to one weak reference

WrIds == 1..MaxWeakrefs

\* init_weakref on freshly allocated memory
FreeNode == [alloc |-> FALSE, wr_object |-> "None", wr_prev |-> 0, wr_next |-> 0,
             wr_callback |-> FALSE, kind |-> "ref", refcnt |-> 0]

WrInit ==
    /\ w_head = 0
    /\ w_node = [n \in WrIds |-> FreeNode]
    /\ w_o_refcnt = 1
    /\ w_pc = "run"
    /\ w_pending = <<>>
    /\ w_called = <<>>
    /\ w_ret = 0
    /\ w_exc = ""
    /\ w_saved = ""
    /\ w_tuple = <<>>
    /\ w_unraisable = <<>>
    /\ w_born = <<>>

WrIdle ==
    /\ w_head = 0
    /\ w_node = <<>>
    /\ w_o_refcnt = 0
    /\ w_pc = "idle"
    /\ w_pending = <<>>
    /\ w_called = <<>>
    /\ w_ret = 0
    /\ w_exc = ""
    /\ w_saved = ""
    /\ w_tuple = <<>>
    /\ w_unraisable = <<>>
    /\ w_born = <<>>

\* A list state is [head, node]; the routines below are functions on it.
WrState == [head |-> w_head, node |-> w_node]

\* _PyWeakref_GetWeakrefCount
RECURSIVE GetWeakrefCount(_, _)
GetWeakrefCount(st, head) ==
    IF head = 0 THEN 0 ELSE 1 + GetWeakrefCount(st, st.node[head].wr_next)

\* (variant: the callback-less proxy is looked for at the head only)
get_basic_refs_HeadOnly(st) ==
    LET head == st.head IN
    IF head # 0 /\ ~st.node[head].wr_callback
       THEN [ref |-> IF st.node[head].kind = "ref" THEN head ELSE 0,
             proxy |-> IF st.node[head].kind = "proxy" THEN head ELSE 0]
       ELSE [ref |-> 0, proxy |-> 0]

\* get_basic_refs: [ref, proxy]
get_basic_refs(st) ==
    LET head == st.head IN
    IF head # 0 /\ ~st.node[head].wr_callback
       THEN LET ref == IF st.node[head].kind = "ref" THEN head ELSE 0
                h2 == IF ref # 0 THEN st.node[head].wr_next ELSE head
                proxy == IF h2 # 0 /\ ~st.node[h2].wr_callback /\ st.node[h2].kind = "proxy"
                            THEN h2 ELSE 0
            IN [ref |-> ref, proxy |-> proxy]
       ELSE [ref |-> 0, proxy |-> 0]

\* (variant: the new node is linked behind the last node of the list)
insert_after_AtTail(st, newref, prev) ==
    LET tail == CHOOSE n \in WrIds : /\ n # newref
                                     /\ st.node[n].alloc
                                     /\ st.node[n].wr_object = "O"
                                     /\ st.node[n].wr_next = 0
    IN [head |-> st.head,
        node |-> [st.node EXCEPT ![newref].wr_prev = tail, ![newref].wr_next = 0,
                                 ![tail].wr_next = newref]]

\* (variant: the new node always goes to the front of the list)
insert_after_AtHead(st, newref, prev) ==
    LET n1 == [st.node EXCEPT ![newref].wr_prev = 0, ![newref].wr_next = st.head]
    IN [head |-> newref,
        node |-> IF st.head # 0 THEN [n1 EXCEPT ![st.head].wr_prev = newref] ELSE n1]

\* insert_after(newref, prev)
insert_after(st, newref, prev) ==
    LET nx == st.node[prev].wr_next
        n1 == [st.node EXCEPT ![newref].wr_prev = prev, ![newref].wr_next = nx]
        n2 == IF nx # 0 THEN [n1 EXCEPT ![nx].wr_prev = newref] ELSE n1
    IN [head |-> st.head, node |-> [n2 EXCEPT ![prev].wr_next = newref]]

\* insert_head(newref, list)
insert_head(st, newref) ==
    LET next == st.head
        n1 == [st.node EXCEPT ![newref].wr_prev = 0, ![newref].wr_next = next]
        n2 == IF next # 0 THEN [n1 EXCEPT ![next].wr_prev = newref] ELSE n1
    IN [head |-> newref, node |-> n2]

\* (variant: the node after self keeps pointing back at self)
clear_weakref_KeepsBackLink(st, self) ==
    LET nd == st.node[self] IN
    IF nd.wr_object # "None"
       THEN LET h == IF st.head = self THEN nd.wr_next ELSE st.head
                n1 == [st.node EXCEPT ![self].wr_object = "None"]
                n2 == IF nd.wr_prev # 0
                         THEN [n1 EXCEPT ![nd.wr_prev].wr_next = nd.wr_next]
                         ELSE n1
            IN [head |-> h,
                node |-> [n2 EXCEPT ![self].wr_prev = 0, ![self].wr_next = 0,
                                    ![self].wr_callback = FALSE]]
       ELSE [head |-> st.head, node |-> [st.node EXCEPT ![self].wr_callback = FALSE]]

\* clear_weakref(self): unlink self from its referent's list, forget the
\* referent, drop the callback
clear_weakref(st, self) ==
    LET nd == st.node[self] IN
    IF nd.wr_object # "None"
       THEN LET h == IF st.head = self THEN nd.wr_next ELSE st.head
                n1 == [st.node EXCEPT ![self].wr_object = "None"]
                n2 == IF nd.wr_prev # 0
                         THEN [n1 EXCEPT ![nd.wr_prev].wr_next = nd.wr_next]
                         ELSE n1
                n3 == IF nd.wr_next # 0
                         THEN [n2 EXCEPT ![nd.wr_next].wr_prev = nd.wr_prev]
                         ELSE n2
            IN [head |-> h,
                node |-> [n3 EXCEPT ![self].wr_prev = 0, ![self].wr_next = 0,
                                    ![self].wr_callback = FALSE]]
       ELSE [head |-> st.head, node |-> [st.node EXCEPT ![self].wr_callback = FALSE]]

\* new_weakref: tp_alloc + init_weakref; the lowest free slot stands for the
\* fresh allocation
FreshWr == IF \E n \in WrIds : ~w_node[n].alloc
              THEN CHOOSE n \in WrIds : ~w_node[n].alloc /\ \A m \in WrIds : m < n => w_node[m].alloc
              ELSE 0

new_weakref(st, self, kind, callback) ==
    [head |-> st.head,
     node |-> [st.node EXCEPT ![self] =
                 [alloc |-> TRUE, wr_object |-> "O", wr_prev |-> 0, wr_next |-> 0,
                  wr_callback |-> callback, kind |-> kind, refcnt |-> 1]]]

WrCanCreate == w_pc = "run" /\ w_o_refcnt > 0

SetWr(st) == w_head' = st.head /\ w_node' = st.node

\* The objects handed to the creation calls: O, and U whose type has no
\* weak list (tp_weaklistoffset == 0)
WrObjects == {"O", "U"}

\* (variant: every type takes weak references)
PyType_SUPPORTS_WEAKREFS_Any(ob) == TRUE

\* _PyType_SUPPORTS_WEAKREFS(Py_TYPE(ob))
PyType_SUPPORTS_WEAKREFS(ob) == ob = "O"

\* PyErr_Format(PyExc_TypeError, "cannot create weak reference to '%s' object");
\* return NULL
WrTypeError ==
    /\ w_ret' = 0
    /\ w_exc' = "TypeError"
    /\ UNCHANGED <<w_head, w_node, w_born>>

\* return of a creation call: an existing weak reference with one more
\* strong reference
WrReturnExisting(result) ==
    /\ w_node[result].refcnt < MaxWrRefcnt
    /\ w_node' = [w_node EXCEPT ![result].refcnt = @ + 1]
    /\ w_ret' = result
    /\ UNCHANGED <<w_head, w_exc, w_born>>

\* return of a creation call: the new weak reference, linked into the list
WrReturnNew(st, self) ==
    /\ SetWr(st)
    /\ w_ret' = self
    /\ w_born' = IF st.node[self].wr_callback THEN Append(w_born, self) ELSE w_born
    /\ UNCHANGED w_exc

WrCallUnchanged == UNCHANGED <<w_o_refcnt, w_pc, w_pending, w_called, w_saved, w_tuple, w_unraisable>>

\* PyWeakref_NewRef(ob, callback)
PyWeakref_NewRef(ob, callback) ==
    /\ FrameWr
    /\ WrCanCreate
    /\ IF ~PyType_SUPPORTS_WEAKREFS(ob) THEN WrTypeError
       ELSE LET b == get_basic_refs(WrState)
                result == IF ~callback THEN b.ref ELSE 0
            IN IF result # 0
                  THEN WrReturnExisting(result)
                  ELSE /\ FreshWr # 0
                       /\ LET st == new_weakref(WrState, FreshWr, "ref", callback)
                              prev == IF b.proxy = 0 THEN b.ref ELSE b.proxy
                          IN IF ~callback \/ prev = 0
                                THEN WrReturnNew(insert_head(st, FreshWr), FreshWr)
                                ELSE WrReturnNew(insert_after(st, FreshWr, prev), FreshWr)
    /\ WrCallUnchanged

\* PyWeakref_NewProxy(ob, callback)
PyWeakref_NewProxy(ob, callback) ==
    /\ FrameWr
    /\ WrCanCreate
    /\ IF ~PyType_SUPPORTS_WEAKREFS(ob) THEN WrTypeError
       ELSE LET b == get_basic_refs(WrState)
                result == IF ~callback THEN b.proxy ELSE 0
            IN IF result # 0
                  THEN WrReturnExisting(result)
                  ELSE /\ FreshWr # 0
                       /\ LET st == new_weakref(WrState, FreshWr, "proxy", callback)
                              prev == IF ~callback THEN b.ref
                                      ELSE IF b.proxy = 0 THEN b.ref ELSE b.proxy
                          IN IF prev = 0
                                THEN WrReturnNew(insert_head(st, FreshWr), FreshWr)
                                ELSE WrReturnNew(insert_after(st, FreshWr, prev), FreshWr)
    /\ WrCallUnchanged

\* weakref.__new__(type, ob, callback) -> new_weakref_lock_held; kind "ref" is
\* the exact type, "sub" a subclass of it
weakref___new__(kind, ob, callback) ==
    /\ FrameWr
    /\ WrCanCreate
    /\ IF ~PyType_SUPPORTS_WEAKREFS(ob) THEN WrTypeError
       ELSE LET b == get_basic_refs(WrState)
            IN IF ~callback /\ kind = "ref" /\ b.ref # 0
                  THEN WrReturnExisting(b.ref)
                  ELSE /\ FreshWr # 0
                       /\ LET st == new_weakref(WrState, FreshWr, kind, callback)
                              b2 == get_basic_refs(st)
                              prev == IF b2.proxy = 0 THEN b2.ref ELSE b2.proxy
                          IN IF (~callback /\ kind = "ref") \/ prev = 0
                                THEN WrReturnNew(insert_head(st, FreshWr), FreshWr)
                                ELSE WrReturnNew(insert_after(st, FreshWr, prev), FreshWr)
    /\ WrCallUnchanged

\* Py_DECREF of a weak reference; at zero weakref_dealloc clears and frees it
weakref_Py_DECREF(n) ==
    /\ FrameWr
    /\ w_pc \in {"run", "returned"}
    /\ w_node[n].alloc
    /\ w_node[n].refcnt >= 1
    /\ IF w_node[n].refcnt = 1
          THEN LET st == clear_weakref(WrState, n)
               IN /\ SetWr([head |-> st.head, node |-> [st.node EXCEPT ![n] = FreeNode]])
                  /\ w_born' = SelectSeq(w_born, LAMBDA m : m # n)
          ELSE /\ w_node' = [w_node EXCEPT ![n].refcnt = @ - 1]
               /\ UNCHANGED <<w_head, w_born>>
    /\ UNCHANGED <<w_ret, w_exc>>
    /\ WrCallUnchanged

\* _PyWeakref_ClearRef(self): clear, leaving the callback intact
PyWeakref_ClearRef(n) ==
    /\ FrameWr
    /\ w_pc = "run"
    /\ w_node[n].alloc
    /\ w_node[n].wr_object # "None"
    /\ LET callback == w_node[n].wr_callback
           st == clear_weakref([head |-> w_head,
                                node |-> [w_node EXCEPT ![n].wr_callback = FALSE]], n)
       IN SetWr([head |-> st.head, node |-> [st.node EXCEPT ![n].wr_callback = callback]])
    /\ UNCHANGED <<w_ret, w_exc, w_born>>
    /\ WrCallUnchanged

\* PyObject_ClearWeakRefs: "Remove the callback-less basic and proxy references"
ClearWeakRefs_Basic(st) ==
    IF st.head # 0 /\ ~st.node[st.head].wr_callback
       THEN LET s1 == clear_weakref(st, st.head)
            IN IF s1.head # 0 /\ ~s1.node[s1.head].wr_callback
                  THEN clear_weakref(s1, s1.head)
                  ELSE s1
       ELSE st

\* (variant: only the first reference is cleared before the callbacks run)
ClearWeakRefs_Loop_FirstOnly(r, current, count) ==
    IF count = 0 THEN r
    ELSE [st |-> clear_weakref([head |-> r.st.head,
                                node |-> [r.st.node EXCEPT ![current].wr_callback = FALSE]],
                               current),
          tuple |-> IF r.st.node[current].refcnt > 0 /\ r.st.node[current].wr_callback
                       THEN Append(r.tuple, current) ELSE r.tuple]

\* PyObject_ClearWeakRefs, the loop over count > 1 references:
\* r = [st, tuple], tuple the weak references whose callbacks are kept
RECURSIVE ClearWeakRefs_Loop(_, _, _)
ClearWeakRefs_Loop(r, current, count) ==
    IF count = 0 THEN r
    ELSE LET nd == r.st.node[current]
             next == nd.wr_next
             keep == nd.refcnt > 0 /\ nd.wr_callback
             s1 == [head |-> r.st.head,
                    node |-> [r.st.node EXCEPT ![current].wr_callback = FALSE]]
         IN ClearWeakRefs_Loop(
                [st |-> clear_weakref(s1, current),
                 tuple |-> IF keep THEN Append(r.tuple, current) ELSE r.tuple],
                next, count - 1)

\* PyObject_ClearWeakRefs up to the first callback; tuple_ok says whether
\* PyTuple_New(count * 2) succeeded
ClearWeakRefs_Unlink(st, tuple_ok) ==
    LET s1 == ClearWeakRefs_Basic(st)
        count == GetWeakrefCount(s1, s1.head)
    IN IF s1.head = 0 THEN [st |-> s1, tuple |-> <<>>]
       ELSE IF count = 1
          THEN ClearWeakRefs_Loop([st |-> s1, tuple |-> <<>>], s1.head, 1)
          ELSE IF ~tuple_ok
             THEN [st |-> s1, tuple |-> <<>>]
             ELSE ClearWeakRefs_Loop([st |-> s1, tuple |-> <<>>], s1.head, count)

\* PyObject_ClearWeakRefs: is anything left in the list after the callback-less
\* basic references were removed (so that exc = PyErr_GetRaisedException())?
ClearWeakRefs_TakesException(st) == ClearWeakRefs_Basic(st).head # 0

\* PyObject_ClearWeakRefs: does it leave through the failed PyTuple_New?
ClearWeakRefs_NoMemory(st, tuple_ok) ==
    LET s1 == ClearWeakRefs_Basic(st)
    IN s1.head # 0 /\ GetWeakrefCount(s1, s1.head) > 1 /\ ~tuple_ok

\* (variant: the loop over the callbacks stops at the first one that fails)
ClearWeakRefs_Remaining_StopOnError(pending, ok) == IF ok THEN Tail(pending) ELSE <<>>

\* PyObject_ClearWeakRefs: the callbacks the loop still has to call after
\* handle_callback returned for the first of pending
ClearWeakRefs_Remaining(pending, ok) == Tail(pending)

\* The last reference to O goes away and its deallocator calls
\* PyObject_ClearWeakRefs(O)
PyObject_ClearWeakRefs(tuple_ok) ==
    /\ FrameWr
    /\ w_pc = "run"
    /\ w_o_refcnt = 1
    /\ w_o_refcnt' = 0
    /\ LET r == ClearWeakRefs_Unlink(WrState, tuple_ok)
       IN /\ SetWr(r.st)
          /\ w_pending' = r.tuple
          /\ w_tuple' = r.tuple
          /\ w_pc' = IF r.tuple = <<>> THEN "returned" ELSE "callbacks"
          /\ w_saved' = IF ClearWeakRefs_TakesException(WrState) THEN w_exc ELSE w_saved
          /\ w_exc' = IF ClearWeakRefs_NoMemory(WrState, tuple_ok) THEN "MemoryError"
                      ELSE IF r.tuple = <<>> THEN w_exc
                      ELSE ""
    /\ UNCHANGED <<w_called, w_ret, w_unraisable, w_born>>

\* handle_callback(ref, callback) for the next kept callback; ok: the
\* callback returns a result, otherwise it raises.  After the last callback
\* PyObject_ClearWeakRefs puts exc back and returns.
handle_callback(ok) ==
    /\ FrameWr
    /\ w_pc = "callbacks"
    /\ w_called' = Append(w_called, Head(w_pending))
    /\ w_unraisable' = IF ok THEN w_unraisable ELSE Append(w_unraisable, Head(w_pending))
    /\ w_pending' = ClearWeakRefs_Remaining(w_pending, ok)
    /\ w_pc' = IF w_pending' = <<>> THEN "returned" ELSE "callbacks"
    /\ w_exc' = IF w_pending' = <<>> THEN w_saved ELSE ""
    /\ UNCHANGED <<w_head, w_node, w_o_refcnt, w_ret, w_saved, w_tuple, w_born>>

WrNext ==
    \/ \E ob \in WrObjects, cb \in BOOLEAN : PyWeakref_NewRef(ob, cb)
    \/ \E ob \in WrObjects, cb \in BOOLEAN : PyWeakref_NewProxy(ob, cb)
    \/ \E k \in {"ref", "sub"}, ob \in WrObjects, cb \in BOOLEAN : weakref___new__(k, ob, cb)
    \/ \E n \in WrIds : weakref_Py_DECREF(n)
    \/ \E n \in WrIds : PyWeakref_ClearRef(n)
    \/ \E ok \in BOOLEAN : PyObject_ClearWeakRefs(ok)
    \/ \E ok \in BOOLEAN : handle_callback(ok)

\* C3: when PyObject_ClearWeakRefs(O) returns, O's weak list is empty and
\* every weak reference has its referent pointer set to None.
C3_AllGoneWhenClearReturns ==
    w_pc = "returned" =>
        /\ w_head = 0
        /\ \A n \in WrIds : w_node[n].alloc => w_node[n].wr_object = "None"

(***************************************************************************)
(* Trashcan (object.c): a root object owning t_width chains of t_length    *)
(* objects; every deallocator brackets its body with Py_TRASHCAN_BEGIN and *)
(* Py_TRASHCAN_END.                                                        *)
(***************************************************************************)
PyTrash_UNWIND_LEVEL == 50

MaxChain == 104        \* longest chain destroyed
MaxWidth == 2          \* chains hanging off the root

Root == <<0, 0>>

TrInit ==
    /\ t_width \in 1..MaxWidth
    /\ t_length \in {1, PyTrash_UNWIND_LEVEL - 1, PyTrash_UNWIND_LEVEL, MaxChain - 1, MaxChain}
    /\ t_started = FALSE
    /\ t_nesting = 0
    /\ t_later = <<>>
    /\ t_stack = <<>>
    /\ t_freed = [c \in 1..MaxWidth |-> 0]
    /\ t_root_freed = 0
    /\ t_deposited = <<>>
    /\ t_drained = <<>>
    /\ t_failed = ""

TrIdle ==
    /\ t_width = 0
    /\ t_length = 0
    /\ t_started = FALSE
    /\ t_nesting = 0
    /\ t_later = <<>>
    /\ t_stack = <<>>
    /\ t_freed = <<>>
    /\ t_root_freed = 0
    /\ t_deposited = <<>>
    /\ t_drained = <<>>
    /\ t_failed = ""

Top == t_stack[Len(t_stack)]
Pop == SubSeq(t_stack, 1, Len(t_stack) - 1)
Call(op) == [op |-> op, pc |-> "begin", i |-> 1]
SetTop(f) == [t_stack EXCEPT ![Len(t_stack)] = f]
TrRunning == t_stack # <<>> /\ t_failed = ""

\* The last reference to the root goes away: _Py_Dealloc(root)
Trash_DeallocRoot ==
    /\ FrameTr
    /\ ~t_started
    /\ t_started' = TRUE
    /\ t_stack' = <<Call(Root)>>
    /\ UNCHANGED <<t_width, t_length, t_nesting, t_later, t_freed, t_root_freed,
                   t_deposited, t_drained, t_failed>>

\* (variant: the threshold test lets one more level in)
PyTrash_begin_Deposits_OffByOne(nesting) == nesting > PyTrash_UNWIND_LEVEL

\* _PyTrash_begin: does the object go on the delete_later list?
PyTrash_begin_Deposits(nesting) == nesting >= PyTrash_UNWIND_LEVEL

\* _PyTrash_begin, with _PyTrash_thread_deposit_object
PyTrash_begin ==
    /\ FrameTr
    /\ TrRunning
    /\ Top.pc = "begin"
    /\ IF PyTrash_begin_Deposits(t_nesting)
          THEN /\ t_later' = <<Top.op>> \o t_later
               /\ t_deposited' = Append(t_deposited, Top.op)
               /\ t_stack' = Pop
               /\ UNCHANGED t_nesting
          ELSE /\ t_nesting' = t_nesting + 1
               /\ t_stack' = SetTop([Top EXCEPT !.pc = "body"])
               /\ UNCHANGED <<t_later, t_deposited>>
    /\ UNCHANGED <<t_width, t_length, t_started, t_freed, t_root_freed, t_drained, t_failed>>

\* The deallocator's body: the object lets go of what it owns; the reference
\* it held was the last one, so _Py_Dealloc of the child is called from here
Dealloc_Body ==
    /\ FrameTr
    /\ TrRunning
    /\ Top.pc = "body"
    /\ IF Top.op = Root
          THEN IF Top.i <= t_width
                  THEN /\ t_stack' = Append(SetTop([Top EXCEPT !.i = @ + 1]), Call(<<Top.i, 1>>))
                       /\ UNCHANGED <<t_freed, t_root_freed>>
                  ELSE /\ t_stack' = SetTop([Top EXCEPT !.pc = "end"])
                       /\ t_root_freed' = t_root_freed + 1
                       /\ UNCHANGED t_freed
          ELSE LET c == Top.op[1]
                   k == Top.op[2]
               IN /\ t_freed' = [t_freed EXCEPT ![c] = @ + 1]
                  /\ t_failed' = IF k = t_freed[c] + 1 THEN t_failed ELSE "double free"
                  /\ UNCHANGED t_root_freed
                  /\ IF k < t_length
                        THEN t_stack' = Append(SetTop([Top EXCEPT !.pc = "end"]), Call(<<c, k + 1>>))
                        ELSE t_stack' = SetTop([Top EXCEPT !.pc = "end"])
    /\ (Top.op = Root => UNCHANGED t_failed)
    /\ UNCHANGED <<t_width, t_length, t_started, t_nesting, t_later, t_deposited, t_drained>>

\* (variant: the list is not drained when the nesting unwinds)
PyTrash_end_Drains_Never(nesting, later) == FALSE

\* (variant: the list is drained whenever a deallocator ends, at any nesting)
PyTrash_end_Drains_AnyNesting(nesting, later) == later # <<>>

\* _PyTrash_end: does it call _PyTrash_thread_destroy_chain?
PyTrash_end_Drains(nesting, later) == nesting <= 0 /\ later # <<>>

\* _PyTrash_end; on the way into _PyTrash_thread_destroy_chain the nesting is
\* raised again, otherwise the deallocator returns
PyTrash_end ==
    /\ FrameTr
    /\ TrRunning
    /\ Top.pc = "end"
    /\ IF PyTrash_end_Drains(t_nesting - 1, t_later)
          THEN /\ t_failed' = IF t_nesting - 1 = 0 THEN t_failed
                              ELSE "assert(trash->delete_nesting == 0)"
               /\ t_nesting' = t_nesting
               /\ t_stack' = SetTop([Top EXCEPT !.pc = "drain"])
          ELSE /\ t_nesting' = t_nesting - 1
               /\ t_stack' = Pop
               /\ UNCHANGED t_failed
    /\ UNCHANGED <<t_width, t_length, t_started, t_later, t_freed, t_root_freed,
                   t_deposited, t_drained>>

\* _PyTrash_thread_destroy_chain: one turn of "while (trash->delete_later)",
\* or the exit of the loop and the return of _PyTrash_end
PyTrash_thread_destroy_chain ==
    /\ FrameTr
    /\ TrRunning
    /\ Top.pc = "drain"
    /\ IF t_later # <<>>
          THEN /\ t_later' = Tail(t_later)
               /\ t_drained' = Append(t_drained, Head(t_later))
               /\ t_stack' = Append(t_stack, Call(Head(t_later)))
               /\ t_failed' = IF t_nesting = 1 THEN t_failed
                              ELSE "assert(trash->delete_nesting == 1)"
               /\ UNCHANGED t_nesting
          ELSE /\ t_nesting' = t_nesting - 1
               /\ t_stack' = Pop
               /\ UNCHANGED <<t_later, t_drained, t_failed>>
    /\ UNCHANGED <<t_width, t_length, t_started, t_freed, t_root_freed, t_deposited>>

TrNext ==
    \/ Trash_DeallocRoot
    \/ PyTrash_begin
    \/ Dealloc_Body
    \/ PyTrash_end
    \/ PyTrash_thread_destroy_chain

Range(seq) == {seq[i] : i \in 1..Len(seq)}
NoDuplicates(seq) == \A i, j \in 1..Len(seq) : seq[i] = seq[j] => i = j
Draining == t_stack # <<>> /\ t_stack[1].pc = "drain"

\* C4: in every reachable state delete_nesting is at most
\* _PyTrash_UNWIND_LEVEL, whatever the chain length, and the native stack of
\* deallocators is never deeper than the nesting allows.
C4_NestingBounded ==
    /\ t_nesting <= PyTrash_UNWIND_LEVEL
    /\ Len(t_stack) <= t_nesting + 1
    /\ t_failed = ""

C4_Witness ==
    /\ Draining
    /\ t_nesting = PyTrash_UNWIND_LEVEL
    /\ t_later # <<>>
    /\ t_length > 2 * PyTrash_UNWIND_LEVEL
    /\ \E i \in 1..Len(t_later) : t_later[i][2] > PyTrash_UNWIND_LEVEL

\* C5: once _PyTrash_end has brought delete_nesting back to 0 and returned,
\* delete_later is empty and every deposited object, also those deposited
\* during the drain, was passed to tp_dealloc by the drain exactly once (and
\* every object's deallocator body has run exactly once).
C5_DrainedExactlyOnce ==
    (t_started /\ t_stack = <<>> /\ t_failed = "") =>
        /\ t_nesting = 0
        /\ t_later = <<>>
        /\ Range(t_drained) = Range(t_deposited)
        /\ NoDuplicates(t_drained)
        /\ NoDuplicates(t_deposited)
        /\ t_root_freed = 1
        /\ \A c \in 1..t_width : t_freed[c] = t_length

C5_Witness ==
    /\ t_started
    /\ t_stack = <<>>
    /\ t_nesting = 0
    /\ Len(t_drained) >= 4
    /\ \E i \in 1..Len(t_deposited) : t_deposited[i][2] > PyTrash_UNWIND_LEVEL

(***************************************************************************)
(* Runtime, interpreter states and thread states (pystate.c).  Pointers    *)
(* are addresses of structs, 0 is NULL.  A routine of pystate.c is an      *)
(* operator from the memory before the call to the memory after it; a      *)
(* Py_FatalError or, in a debug build, a failed assert() stops the process *)
(* where it happens.                                                       *)
(***************************************************************************)
NOsThreads == 2          \* OS threads; 1 is the main thread
MaxInterps == 2          \* interpreter structs
MaxHeapTstates == 2      \* thread states from alloc_threadstate alive at once
MaxUniqueId == 3         \* thread states created in the main interpreter
MaxSubUniqueId == 2      \* thread states created in another interpreter
MaxInterpId == 1         \* highest interpreter id handed out
MaxEnsure == 2           \* nesting depth of PyGILState_Ensure
IdBits == 3              \* width of int64_t, in bits
MaxRefill == 1           \* releases after which a payload struct is filled again

INT64_MAX == (2 ^ (IdBits - 1)) - 1
INT64_MIN == -(2 ^ (IdBits - 1))

OsThreads == 1..NOsThreads
InterpIds == 1..MaxInterps
TsIds == 1..(MaxInterps + MaxHeapTstates)
HeapTs == (MaxInterps + 1)..(MaxInterps + MaxHeapTstates)
MainInterpreter == 1
InitialThread(i) == i

ZeroTs == [alloc |-> FALSE, interp |-> 0, id |-> 0, prev |-> 0, next |-> 0,
           thread_id |-> 0, gilstate_counter |-> 0,
           initialized |-> FALSE, bound |-> FALSE, unbound |-> FALSE,
           bound_gilstate |-> FALSE, active |-> FALSE, cleared |-> FALSE,
           finalized |-> FALSE]

ZeroInterp == [alloc |-> FALSE, initialized |-> FALSE, id |-> 0, next |-> 0,
               head |-> 0, next_unique_id |-> 0]

Running == [kind |-> "none", msg |-> ""]

\* The runtime after Py_Initialize on the main thread: the main interpreter
\* with its initial thread state, bound to the main thread and current
PsInit ==
    /\ p_debug \in BOOLEAN
    /\ p_fail = Running
    /\ p_interp = [i \in InterpIds |->
                      IF i = MainInterpreter
                         THEN [alloc |-> TRUE, initialized |-> TRUE, id |-> 0, next |-> 0,
                               head |-> InitialThread(i), next_unique_id |-> 1]
                         ELSE ZeroInterp]
    /\ p_ihead = MainInterpreter
    /\ p_main = MainInterpreter
    /\ p_next_id = 1
    /\ p_auto = MainInterpreter
    /\ p_ts = [x \in TsIds |->
                  IF x = InitialThread(MainInterpreter)
                     THEN [ZeroTs EXCEPT !.alloc = TRUE, !.interp = MainInterpreter, !.id = 1,
                                         !.thread_id = 1, !.gilstate_counter = 1,
                                         !.initialized = TRUE, !.bound = TRUE,
                                         !.bound_gilstate = TRUE, !.active = TRUE]
                     ELSE ZeroTs]
    /\ p_current = InitialThread(MainInterpreter)
    /\ p_tss = [c \in OsThreads |-> IF c = 1 THEN InitialThread(MainInterpreter) ELSE 0]
    /\ p_gil = 1
    /\ p_ensure = [c \in OsThreads |-> <<>>]
    /\ p_wait = [c \in OsThreads |-> "no"]
    /\ p_completed = [c \in OsThreads |-> 0]
    /\ p_zapped = 0
    /\ p_clears = {}
    /\ p_ids = <<0>>

PsIdle ==
    /\ p_debug = FALSE
    /\ p_fail = Running
    /\ p_interp = <<>>
    /\ p_ihead = 0
    /\ p_main = 0
    /\ p_next_id = 0
    /\ p_auto = 0
    /\ p_ts = <<>>
    /\ p_current = 0
    /\ p_tss = <<>>
    /\ p_gil = 0
    /\ p_ensure = <<>>
    /\ p_wait = <<>>
    /\ p_completed = <<>>
    /\ p_zapped = 0
    /\ p_clears = {}
    /\ p_ids = <<>>

\* The memory a routine works on
PsWorld == [debug |-> p_debug, fail |-> p_fail, interp |-> p_interp, ihead |-> p_ihead,
            main |-> p_main, next_id |-> p_next_id, ts |-> p_ts, cur |-> p_current,
            tss |-> p_tss, gil |-> p_gil, ret |-> 0, clears |-> {}, ids |-> p_ids]

SetPs(st) ==
    \E s \in {st} :
        /\ p_fail' = s.fail
        /\ p_interp' = s.interp
        /\ p_ihead' = s.ihead
        /\ p_main' = s.main
        /\ p_next_id' = s.next_id
        /\ p_ts' = s.ts
        /\ p_current' = s.cur
        /\ p_tss' = s.tss
        /\ p_gil' = s.gil
        /\ p_clears' = s.clears
        /\ p_ids' = s.ids
        /\ UNCHANGED <<p_debug, p_auto>>

Failed(st) == st.fail.kind # "none"

\* the statement after a point the process may have died at
Then(st, after) == IF Failed(st) THEN st ELSE after

\* Py_FatalError(msg)
Py_FatalError(st, msg) == Then(st, [st EXCEPT !.fail = [kind |-> "fatal", msg |-> msg]])

\* assert(cond): evaluated by debug builds only
Expect(st, cond, msg) ==
    IF Failed(st) \/ ~st.debug THEN st
    ELSE IF cond THEN st ELSE [st EXCEPT !.fail = [kind |-> "assert", msg |-> msg]]

\* a read or write through a pointer to freed memory
Undefined(st, msg) == Then(st, [st EXCEPT !.fail = [kind |-> "undefined", msg |-> msg]])

\* tstate_is_alive (no routine of this file sets _status.finalizing)
tstate_is_alive(t) == t.initialized /\ ~t.finalized /\ ~t.cleared

\* tstate_is_bound
tstate_is_bound(t) == t.bound /\ ~t.unbound

RECURSIVE ListFrom(_, _, _)
ListFrom(ts, x, fuel) ==
    IF x = 0 \/ fuel = 0 THEN <<>> ELSE <<x>> \o ListFrom(ts, ts[x].next, fuel - 1)

\* interp->threads.head followed through ->next
ThreadList(ts, head) == ListFrom(ts, head, Cardinality(TsIds) + 1)

RECURSIVE InterpListFrom(_, _, _)
InterpListFrom(interp, i, fuel) ==
    IF i = 0 \/ fuel = 0 THEN <<>> ELSE <<i>> \o InterpListFrom(interp, interp[i].next, fuel - 1)

\* runtime->interpreters.head followed through ->next
InterpList(interp, head) == InterpListFrom(interp, head, MaxInterps + 1)

Members(seq) == {seq[k] : k \in 1..Len(seq)}

\* (variant: the check is left out)
tstate_verify_not_active_Skipped(st, x) == st

\* tstate_verify_not_active
tstate_verify_not_active(st, x) ==
    IF Failed(st) THEN st
    ELSE IF x = st.cur THEN Py_FatalError(st, "tstate is still current") ELSE st

\* bind_tstate, called on OS thread c
bind_tstate(st, x, c) ==
    LET t == st.ts[x]
        s1 == Expect(st, tstate_is_alive(t) /\ ~t.bound,
                     "assert(tstate_is_alive(tstate) && !tstate->_status.bound)")
        s2 == Expect(s1, ~t.unbound, "assert(!tstate->_status.unbound)")
        s3 == Expect(s2, ~t.bound_gilstate, "assert(!tstate->_status.bound_gilstate)")
        s4 == Expect(s3, x # st.tss[c], "assert(tstate != gilstate_tss_get(runtime))")
        s5 == Expect(s4, ~t.active, "assert(!tstate->_status.active)")
        s6 == Expect(s5, t.thread_id = 0, "assert(tstate->thread_id == 0)")
    IN Then(s6, [s6 EXCEPT !.ts[x].thread_id = c, !.ts[x].bound = TRUE])

\* (variant: the state is left bound)
unbind_tstate_Nothing(st, x) == st

\* unbind_tstate
unbind_tstate(st, x) ==
    LET t == st.ts[x]
        s1 == Expect(st, tstate_is_bound(t), "assert(tstate_is_bound(tstate))")
        s2 == Expect(s1, t.thread_id > 0, "assert(tstate->thread_id > 0)")
    IN Then(s2, [s2 EXCEPT !.ts[x].unbound = TRUE])

\* bind_gilstate_tstate, called on OS thread c
bind_gilstate_tstate(st, x, c) ==
    LET t == st.ts[x]
        tcur == st.tss[c]
        s1 == Expect(st, tstate_is_alive(t), "assert(tstate_is_alive(tstate))")
        s2 == Expect(s1, tstate_is_bound(t), "assert(tstate_is_bound(tstate))")
        s3 == Expect(s2, ~t.bound_gilstate, "assert(!tstate->_status.bound_gilstate)")
        s4 == Expect(s3, x # tcur, "assert(tstate != tcur)")
        s5 == IF tcur = 0 THEN s4
              ELSE IF ~st.ts[tcur].alloc
                      THEN Undefined(s4, "tcur->_status.bound_gilstate = 0 on a freed thread state")
                      ELSE Then(s4, [s4 EXCEPT !.ts[tcur].bound_gilstate = FALSE])
    IN Then(s5, [s5 EXCEPT !.tss[c] = x, !.ts[x].bound_gilstate = TRUE])

\* unbind_gilstate_tstate, called on OS thread c
unbind_gilstate_tstate(st, x, c) ==
    LET t == st.ts[x]
        s1 == Expect(st, tstate_is_bound(t), "assert(tstate_is_bound(tstate))")
        s2 == Expect(s1, t.bound_gilstate, "assert(tstate->_status.bound_gilstate)")
        s3 == Expect(s2, x = st.tss[c], "assert(tstate == gilstate_tss_get(runtime))")
    IN Then(s3, [s3 EXCEPT !.tss[c] = 0, !.ts[x].bound_gilstate = FALSE])

\* holds_gil, called on OS thread c
holds_gil(st, x, c) == x = st.cur

\* init_threadstate
init_threadstate(st, x, i, id, next) ==
    IF Failed(st) THEN st
    ELSE IF st.ts[x].initialized THEN Py_FatalError(st, "thread state already initialized")
    ELSE LET s1 == Expect(st, (next # 0 /\ id # 1) \/ (next = 0 /\ id = 1),
                          "assert((next != NULL && id != 1) || (next == NULL && id == 1))")
             s2 == IF next = 0 THEN s1
                   ELSE LET e == Expect(s1, st.ts[next].prev = 0 \/ st.ts[next].prev = x,
                                        "assert(next->prev == NULL || next->prev == tstate)")
                        IN Then(e, [e EXCEPT !.ts[next].prev = x])
             s3 == Then(s2, [s2 EXCEPT !.ts[x].next = next])
             s4 == Expect(s3, st.ts[x].prev = 0, "assert(tstate->prev == NULL)")
         IN Then(s4, [s4 EXCEPT !.ts[x].interp = i, !.ts[x].id = id,
                                !.ts[x].gilstate_counter = 1,
                                !.ts[x].initialized = TRUE])

\* alloc_threadstate: the lowest free address
FreshTs(st) == CHOOSE x \in HeapTs :
                   /\ ~st.ts[x].alloc
                   /\ \A y \in HeapTs : ~st.ts[y].alloc => x <= y

\* new_threadstate can be called: the allocation succeeds, ids are left
CanCreateTs(i) ==
    /\ p_interp[i].next_unique_id < (IF i = MainInterpreter THEN MaxUniqueId ELSE MaxSubUniqueId)
    /\ \E x \in HeapTs : ~p_ts[x].alloc

\* (variant: the counter is not advanced once it has been used)
threads_next_unique_id_Stuck(n) == IF n = 0 THEN 1 ELSE n

\* new_threadstate: interp->threads.next_unique_id += 1
threads_next_unique_id(n) == n + 1

\* new_threadstate; the new thread state is left in ret
new_threadstate(st, i) ==
    LET id == threads_next_unique_id(st.interp[i].next_unique_id)
        old_head == st.interp[i].head
        s1 == Then(st, [st EXCEPT !.interp[i].next_unique_id = id])
        s2 == IF old_head = 0
                 THEN Expect(s1, id = 1, "assert(id == 1)")
                 ELSE Expect(Expect(s1, id > 1, "assert(id > 1)"),
                             st.ts[old_head].prev = 0, "assert(old_head->prev == NULL)")
        x == IF old_head = 0 THEN InitialThread(i) ELSE FreshTs(st)
        s3 == IF old_head = 0 THEN s2
              ELSE Then(s2, [s2 EXCEPT !.ts[x] = [ZeroTs EXCEPT !.alloc = TRUE]])
        s4 == Then(s3, [s3 EXCEPT !.interp[i].head = x])
        s5 == init_threadstate(s4, x, i, id, old_head)
    IN Then(s5, [s5 EXCEPT !.ret = x])

\* free_threadstate: the interpreter's _initial_thread is not freed
free_threadstate(st, x) ==
    IF Failed(st) THEN st
    ELSE IF x # InitialThread(st.ts[x].interp) THEN [st EXCEPT !.ts[x] = ZeroTs] ELSE st

\* PyThreadState_New and _PyThreadState_Bind: bind_tstate, then
\* bind_gilstate_tstate if the OS thread has no thread state yet
ThreadState_Bind(st, x, c) ==
    LET s1 == bind_tstate(st, x, c)
    IN IF Failed(s1) THEN s1
       ELSE IF s1.tss[c] = 0 THEN bind_gilstate_tstate(s1, x, c) ELSE s1

\* (variant: a thread state that was never bound is refused)
ThreadState_Clear_BoundOnly(st, x) ==
    IF Failed(st) THEN st
    ELSE IF ~st.ts[x].bound THEN Py_FatalError(st, "thread state was never bound")
    ELSE [st EXCEPT !.ts[x].cleared = TRUE,
                    !.clears = @ \cup {[ts |-> x, cur |-> st.cur]}]

\* PyThreadState_Clear
ThreadState_Clear(st, x) ==
    LET t == st.ts[x]
        s1 == Expect(st, t.initialized /\ ~t.cleared,
                     "assert(tstate->_status.initialized && !tstate->_status.cleared)")
    IN Then(s1, [s1 EXCEPT !.ts[x].cleared = TRUE,
                           !.clears = @ \cup {[ts |-> x, cur |-> st.cur]}])

\* (variant: the successor's back pointer is not repaired)
tstate_unlink_ForwardOnly(st, x) ==
    LET t == st.ts[x]
    IN IF t.prev # 0 THEN [st EXCEPT !.ts[t.prev].next = t.next]
       ELSE [st EXCEPT !.interp[t.interp].head = t.next]

\* tstate_delete_common, under HEAD_LOCK: take the state out of the list
tstate_unlink(st, x) ==
    LET t == st.ts[x]
        s1 == IF t.prev # 0 THEN [st EXCEPT !.ts[t.prev].next = t.next]
              ELSE [st EXCEPT !.interp[t.interp].head = t.next]
    IN IF t.next # 0 THEN [s1 EXCEPT !.ts[t.next].prev = t.prev] ELSE s1

\* tstate_delete_common, called on OS thread c
tstate_delete_common(st, x, c) ==
    LET t == st.ts[x]
        s1 == Expect(st, t.cleared /\ ~t.finalized,
                     "assert(tstate->_status.cleared && !tstate->_status.finalized)")
        s2 == IF Failed(s1) THEN s1
              ELSE IF t.interp = 0 THEN Py_FatalError(s1, "NULL interpreter")
              ELSE tstate_unlink(s1, x)
        s3 == IF Failed(s2) THEN s2
              ELSE IF t.bound_gilstate THEN unbind_gilstate_tstate(s2, x, c) ELSE s2
        s4 == unbind_tstate(s3, x)
    IN Then(s4, [s4 EXCEPT !.ts[x].finalized = TRUE])

\* PyThreadState_Delete, called on OS thread c
ThreadState_Delete(st, x, c) ==
    free_threadstate(tstate_delete_common(tstate_verify_not_active(st, x), x, c), x)

\* _PyThreadState_DeleteCurrent, called on OS thread c; _PyEval_ReleaseLock
\* gives up the GIL
ThreadState_DeleteCurrent(st, x, c) ==
    LET s1 == tstate_delete_common(st, x, c)
        s2 == Then(s1, [s1 EXCEPT !.cur = 0, !.gil = 0])
    IN free_threadstate(s2, x)

\* tstate_activate, called on OS thread c
tstate_activate(st, x, c) ==
    LET t == st.ts[x]
        s1 == Expect(st, tstate_is_bound(t), "assert(tstate_is_bound(tstate))")
        s2 == Expect(s1, ~t.active, "assert(!tstate->_status.active)")
        s3 == Expect(s2, ~t.bound_gilstate \/ x = st.tss[c],
                     "assert(!tstate->_status.bound_gilstate || tstate == gilstate_tss_get(runtime))")
        s4 == IF Failed(s3) THEN s3
              ELSE IF ~t.bound_gilstate THEN bind_gilstate_tstate(s3, x, c) ELSE s3
    IN Then(s4, [s4 EXCEPT !.ts[x].active = TRUE])

\* (variant: the flag is left set)
tstate_deactivate_Nothing(st, x) == st

\* tstate_deactivate
tstate_deactivate(st, x) ==
    LET t == st.ts[x]
        s1 == Expect(st, tstate_is_bound(t), "assert(tstate_is_bound(tstate))")
        s2 == Expect(s1, t.active, "assert(tstate->_status.active)")
    IN Then(s2, [s2 EXCEPT !.ts[x].active = FALSE])

\* _PyThreadState_Swap, called on OS thread c; the old thread state is left in ret
ThreadState_Swap(st, newts, c) ==
    LET oldts == st.cur
        s1 == Then(st, [st EXCEPT !.cur = 0])
        s2 == IF oldts # 0 THEN tstate_deactivate(s1, oldts) ELSE s1
        s3 == IF newts = 0 THEN s2
              ELSE LET e == Expect(s2, tstate_is_bound(s2.ts[newts]),
                                   "assert(tstate_is_bound(newts))")
                   IN tstate_activate(Then(e, [e EXCEPT !.cur = newts]), newts, c)
    IN Then(s3, [s3 EXCEPT !.ret = oldts])

\* (variant: the remaining thread states are left alone)
zapthreads_Nothing(st, i, c, fuel) == st

\* zapthreads, called on OS thread c
RECURSIVE zapthreads(_, _, _, _)
zapthreads(st, i, c, fuel) ==
    IF Failed(st) \/ fuel = 0 THEN st
    ELSE LET x == st.interp[i].head
         IN IF x = 0 THEN st
            ELSE \* the loop goes on with the memory the delete leaves
                 CHOOSE r \in {zapthreads(s, i, c, fuel - 1) :
                                 s \in {free_threadstate(
                                            tstate_delete_common(
                                                tstate_verify_not_active(st, x), x, c), x)}} : TRUE

\* free_interpreter: the main interpreter is static; a freed interpreter
\* takes its _initial_thread with it
free_interpreter(st, i) ==
    IF Failed(st) \/ i = MainInterpreter THEN st
    ELSE [st EXCEPT !.interp[i] = ZeroInterp, !.ts[InitialThread(i)] = ZeroTs]

\* PyInterpreterState_Delete: the current thread state is swapped out if it
\* belongs to interp
interp_swap_out(st, i, c) ==
    IF Failed(st) THEN st
    ELSE IF st.cur # 0 /\ st.ts[st.cur].interp = i THEN ThreadState_Swap(st, 0, c) ELSE st

\* PyInterpreterState_Delete, under HEAD_LOCK: interp is looked up in the
\* runtime's list and taken out of it
interp_unlink(st, i) ==
    IF Failed(st) THEN st
    ELSE IF i \notin Members(InterpList(st.interp, st.ihead))
       THEN Py_FatalError(st, "NULL interpreter")
    ELSE IF st.interp[i].head # 0 THEN Py_FatalError(st, "remaining threads")
    ELSE IF st.ihead = i THEN [st EXCEPT !.ihead = st.interp[i].next]
    ELSE LET p == CHOOSE j \in InterpIds : /\ st.interp[j].alloc
                                           /\ st.interp[j].next = i
                                           /\ j \in Members(InterpList(st.interp, st.ihead))
         IN [st EXCEPT !.interp[p].next = st.interp[i].next]

\* (variant: interpreters.main is left as it is)
interp_unset_main_Kept(st, i) == st

\* PyInterpreterState_Delete, under HEAD_LOCK: the main interpreter goes last
interp_unset_main(st, i) ==
    IF Failed(st) \/ st.main # i THEN st
    ELSE IF st.ihead # 0 THEN Py_FatalError([st EXCEPT !.main = 0], "remaining subinterpreters")
    ELSE [st EXCEPT !.main = 0]

\* PyInterpreterState_Delete, called on OS thread c
InterpreterState_Delete(st, i, c) ==
    CHOOSE r \in {free_interpreter(s4, i) :
                    s4 \in {interp_unset_main(s3, i) :
                      s3 \in {interp_unlink(s2, i) :
                        s2 \in {zapthreads(s1, i, c, Cardinality(TsIds)) :
                          s1 \in {interp_swap_out(st, i, c)}}}}} : TRUE

\* alloc_interpreter: the lowest free address
FreshInterp(st) == CHOOSE i \in InterpIds \ {MainInterpreter} :
                       /\ ~st.interp[i].alloc
                       /\ \A j \in InterpIds \ {MainInterpreter} : ~st.interp[j].alloc => i <= j

\* init_interpreter
init_interpreter(st, i, id, next) ==
    IF Failed(st) THEN st
    ELSE IF st.interp[i].initialized THEN Py_FatalError(st, "interpreter already initialized")
    ELSE LET s1 == Expect(st, id > 0 \/ (id = 0 /\ i = st.main),
                          "assert(id > 0 || (id == 0 && interp == runtime->interpreters.main))")
             s2 == Expect(s1, next # 0 \/ i = st.main,
                          "assert(next != NULL || (interp == runtime->interpreters.main))")
         IN Then(s2, [s2 EXCEPT !.interp[i].id = id, !.interp[i].next = next,
                                !.interp[i].initialized = TRUE])

\* (variant: the id is not taken from the counter)
interpreters_next_id_Kept(next_id) == next_id

\* PyInterpreterState_New: interpreters->next_id += 1, on an int64_t
interpreters_next_id(next_id) ==
    ((next_id + 1 - INT64_MIN) % (2 ^ IdBits)) + INT64_MIN

\* (variant: the id taken is given back)
InterpreterState_New_error_GivesIdBack(st) ==
    Then(st, [st EXCEPT !.ret = 0, !.next_id = @ - 1])

\* PyInterpreterState_New, "error:": the lock is freed, and the interpreter
\* if one was allocated; nothing is written to the runtime
InterpreterState_New_error(st) == Then(st, [st EXCEPT !.ret = 0])

\* PyInterpreterState_New; the new interpreter, or NULL, is left in ret.
\* audit_ok: no audit hook objects; lock_ok: PyThread_allocate_lock returns a
\* lock; alloc_ok: alloc_interpreter returns memory
InterpreterState_New_With(st, audit_ok, lock_ok, alloc_ok) ==
    IF Failed(st) THEN st
    ELSE IF ~audit_ok \/ ~lock_ok THEN [st EXCEPT !.ret = 0]
    ELSE
    LET id == st.next_id
        old_head == st.ihead
        s1 == [st EXCEPT !.next_id = interpreters_next_id(id)]
        i == IF old_head = 0 THEN MainInterpreter ELSE FreshInterp(st)
        ok == old_head = 0 \/ (alloc_ok /\ id >= 0)
        s2 == IF old_head = 0
                 THEN LET a == Expect(s1, st.main = 0, "assert(interpreters->main == NULL)")
                          b == Expect(a, id = 0, "assert(id == 0)")
                          d == Expect(b, st.interp[i].id = 0, "assert(interp->id == 0)")
                          e == Expect(d, st.interp[i].next = 0, "assert(interp->next == NULL)")
                      IN Then(e, [e EXCEPT !.main = i])
                 ELSE LET a == Expect(s1, st.main # 0, "assert(interpreters->main != NULL)")
                          b == Expect(a, id # 0, "assert(id != 0)")
                      IN IF ~ok THEN b
                         ELSE Then(b, [b EXCEPT !.interp[i] = [ZeroInterp EXCEPT !.alloc = TRUE],
                                                !.ts[InitialThread(i)] = [ZeroTs EXCEPT !.alloc = TRUE]])
        s3 == Then(s2, [s2 EXCEPT !.ihead = i])
        s4 == init_interpreter(s3, i, id, old_head)
    IN IF ~ok THEN InterpreterState_New_error(s2)
       ELSE Then(s4, [s4 EXCEPT !.ret = i, !.ids = Append(@, id)])

\* PyInterpreterState_New when nothing it asks for is refused
InterpreterState_New(st) == InterpreterState_New_With(st, TRUE, TRUE, TRUE)

\* PyEval_SaveThread: _PyThreadState_Swap(NULL), then the GIL is given up
Eval_SaveThread(st, c) ==
    LET s1 == ThreadState_Swap(st, 0, c)
    IN IF Failed(s1) THEN s1
       ELSE IF s1.ret = 0 THEN Py_FatalError(s1, "PyEval_SaveThread: NULL tstate")
       ELSE [s1 EXCEPT !.gil = 0]

\* PyEval_RestoreThread, once the GIL could be taken
Eval_RestoreThread(st, x, c) ==
    ThreadState_Swap(Then(st, [st EXCEPT !.gil = c]), x, c)

\* (variant: the thread state is destroyed one release early)
GILState_Release_Destroys_Early(counter) == counter <= 1

\* PyGILState_Release: is this the release that destroys the thread state?
GILState_Release_Destroys(counter) == counter = 0

\* PyGILState_Release(oldstate), called on OS thread c
GILState_Release(st, c, oldstate) ==
    LET x == st.tss[c]
    IN IF Failed(st) THEN st
       ELSE IF x = 0
          THEN Py_FatalError(st, "auto-releasing thread-state, but no thread-state for this thread")
       ELSE IF ~st.ts[x].alloc THEN Undefined(st, "PyGILState_Release reads a freed thread state")
       ELSE IF ~holds_gil(st, x, c)
          THEN Py_FatalError(st, "thread state must be current when releasing")
       ELSE LET counter == st.ts[x].gilstate_counter - 1
                s1 == [st EXCEPT !.ts[x].gilstate_counter = counter]
                s2 == Expect(s1, counter >= 0, "assert(tstate->gilstate_counter >= 0)")
            IN IF GILState_Release_Destroys(counter)
                  THEN LET s3 == Expect(s2, oldstate = "UNLOCKED",
                                        "assert(oldstate == PyGILState_UNLOCKED)")
                           s4 == ThreadState_Clear(s3, x)
                           s5 == Expect(s4, s4.cur = x, "assert(current_fast_get(runtime) == tstate)")
                       IN ThreadState_DeleteCurrent(s5, x, c)
                  ELSE IF oldstate = "UNLOCKED" THEN Eval_SaveThread(s2, c)
                  ELSE s2

\* interpreter_clear: "for (p = interp->threads.head; p != NULL; p = p->next)
\* PyThreadState_Clear(p);"
RECURSIVE interpreter_clear_threads(_, _, _)
interpreter_clear_threads(st, p, fuel) ==
    IF Failed(st) \/ p = 0 \/ fuel = 0 THEN st
    ELSE interpreter_clear_threads(ThreadState_Clear(st, p), st.ts[p].next, fuel - 1)

\* (variant: only the thread state passed in is cleared)
interpreter_clear_CurrentOnly(st, i, tstate) ==
    IF tstate # 0 /\ st.ts[tstate].interp = i THEN ThreadState_Clear(st, tstate) ELSE st

\* interpreter_clear(interp, tstate), as far as it touches thread states
interpreter_clear(st, i, tstate) ==
    interpreter_clear_threads(Expect(st, tstate # 0, "assert(tstate != NULL)"),
                              st.interp[i].head, Cardinality(TsIds))

\* _PyThreadState_DeleteExcept: "for (p = list; p; p = next) { next = p->next;
\* PyThreadState_Clear(p); free_threadstate(p); }"
RECURSIVE DeleteExcept_stale(_, _, _)
DeleteExcept_stale(st, p, fuel) ==
    IF Failed(st) \/ p = 0 \/ fuel = 0 THEN st
    ELSE DeleteExcept_stale(free_threadstate(ThreadState_Clear(st, p), p),
                            st.ts[p].next, fuel - 1)

\* _PyThreadState_DeleteExcept(tstate)
ThreadState_DeleteExcept(st, x) ==
    LET t == st.ts[x]
        i == t.interp
        list == IF st.interp[i].head = x THEN t.next ELSE st.interp[i].head
        s1 == IF t.prev # 0 THEN [st EXCEPT !.ts[t.prev].next = t.next] ELSE st
        s2 == IF t.next # 0 THEN [s1 EXCEPT !.ts[t.next].prev = t.prev] ELSE s1
        s3 == [s2 EXCEPT !.ts[x].prev = 0, !.ts[x].next = 0, !.interp[i].head = x]
    IN IF Failed(st) THEN st ELSE DeleteExcept_stale(s3, list, Cardinality(TsIds))

\* _PyInterpreterState_DeleteExceptMain: "while (interp != NULL)"; the main
\* interpreter's next is set to NULL before "interp = interp->next" reads it
RECURSIVE DeleteExceptMain_loop(_, _, _, _)
DeleteExceptMain_loop(st, i, c, fuel) ==
    IF Failed(st) \/ i = 0 \/ fuel = 0 THEN st
    ELSE IF i = st.main THEN [st EXCEPT !.interp[i].next = 0, !.ihead = i]
    ELSE CHOOSE r \in {DeleteExceptMain_loop(s, st.interp[i].next, c, fuel - 1) :
                         s \in {free_interpreter(
                                    zapthreads(interpreter_clear(st, i, st.cur),
                                               i, c, Cardinality(TsIds)), i)}} : TRUE

\* _PyInterpreterState_DeleteExceptMain, called on OS thread c; ret is 0 for
\* _PyStatus_OK() and -1 for an error status
InterpreterState_DeleteExceptMain(st, c) ==
    LET s1 == ThreadState_Swap(st, 0, c)
        tstate == s1.ret
        s2 == DeleteExceptMain_loop([s1 EXCEPT !.ihead = 0], st.ihead, c, MaxInterps + 1)
    IN IF Failed(s1) THEN s1
       ELSE IF tstate # 0 /\ st.ts[tstate].interp # st.main THEN [s1 EXCEPT !.ret = -1]
       ELSE IF Failed(s2) THEN s2
       ELSE IF s2.ihead = 0 THEN [s2 EXCEPT !.ret = -1]
       ELSE CHOOSE r \in {Then(s, [s EXCEPT !.ret = 0]) :
                            s \in {ThreadState_Swap(s2, tstate, c)}} : TRUE

\* ---- the calls a program makes ----

PsRunning == p_fail.kind = "none"
CallerIdle(c) == p_wait[c] = "no"
Listed(i) == i \in Members(InterpList(p_interp, p_ihead))
LocalsUnchanged == UNCHANGED <<p_ensure, p_wait, p_completed, p_zapped>>

\* PyInterpreterState_New() on OS thread c
PyInterpreterState_New(c) ==
    /\ FramePs
    /\ PsRunning /\ CallerIdle(c)
    /\ p_next_id <= MaxInterpId
    /\ p_ihead = 0 \/ \E i \in InterpIds \ {MainInterpreter} : ~p_interp[i].alloc
    /\ SetPs(InterpreterState_New(PsWorld))
    /\ LocalsUnchanged

\* PyInterpreterState_New() on OS thread c, which may be refused the lock or
\* the memory it asks for. The id counter is followed through its overflow, up
\* to the first call that the overflow makes fail
PyInterpreterState_New_Try(c, audit_ok, lock_ok, alloc_ok) ==
    /\ FramePs
    /\ PsRunning /\ CallerIdle(c)
    /\ p_next_id >= 1 \/ p_next_id = INT64_MIN
    /\ (p_ihead # 0 /\ alloc_ok /\ p_next_id >= 0)
           => \E i \in InterpIds \ {MainInterpreter} : ~p_interp[i].alloc
    /\ SetPs(InterpreterState_New_With(PsWorld, audit_ok, lock_ok, alloc_ok))
    /\ LocalsUnchanged

\* _PyInterpreterState_DeleteExceptMain(runtime) on OS thread c
PyInterpreterState_DeleteExceptMain(c) ==
    /\ FramePs
    /\ PsRunning /\ CallerIdle(c)
    /\ SetPs(InterpreterState_DeleteExceptMain(PsWorld, c))
    /\ LocalsUnchanged

\* PyInterpreterState_Delete(interp) on OS thread c
PyInterpreterState_Delete(c, i) ==
    /\ FramePs
    /\ PsRunning /\ CallerIdle(c)
    /\ p_interp[i].alloc /\ Listed(i)
    /\ SetPs(InterpreterState_Delete(PsWorld, i, c))
    /\ p_zapped' = Len(ThreadList(p_ts, p_interp[i].head))
    /\ UNCHANGED <<p_ensure, p_wait, p_completed>>

\* PyThreadState_New(interp) on OS thread c
PyThreadState_New(c, i) ==
    /\ FramePs
    /\ PsRunning /\ CallerIdle(c)
    /\ p_interp[i].alloc /\ Listed(i)
    /\ CanCreateTs(i)
    /\ p_ensure[c] = <<>>
    /\ LET s1 == new_threadstate(PsWorld, i)
       IN SetPs(IF Failed(s1) THEN s1 ELSE ThreadState_Bind(s1, s1.ret, c))
    /\ p_completed' = [p_completed EXCEPT ![c] = 0]
    /\ UNCHANGED <<p_ensure, p_wait, p_zapped>>

\* _PyThreadState_New(interp) on OS thread c
PyThreadState_New_Unbound(c, i) ==
    /\ FramePs
    /\ PsRunning /\ CallerIdle(c)
    /\ p_interp[i].alloc /\ Listed(i)
    /\ CanCreateTs(i)
    /\ SetPs(new_threadstate(PsWorld, i))
    /\ LocalsUnchanged

\* _PyThreadState_Bind(tstate) on OS thread c, for a state not bound before
PyThreadState_Bind(c, x) ==
    /\ FramePs
    /\ PsRunning /\ CallerIdle(c)
    /\ p_ts[x].alloc /\ p_ts[x].initialized /\ ~p_ts[x].bound /\ ~p_ts[x].cleared
    /\ SetPs(ThreadState_Bind(PsWorld, x, c))
    /\ LocalsUnchanged

\* PyThreadState_Clear(tstate) on OS thread c, for a state not cleared before
PyThreadState_Clear(c, x) ==
    /\ FramePs
    /\ PsRunning /\ CallerIdle(c)
    /\ p_ts[x].alloc /\ p_ts[x].initialized /\ ~p_ts[x].cleared
    /\ SetPs(ThreadState_Clear(PsWorld, x))
    /\ LocalsUnchanged

\* PyThreadState_Delete(tstate) on OS thread c, for a state not deleted before
PyThreadState_Delete(c, x) ==
    /\ FramePs
    /\ PsRunning /\ CallerIdle(c)
    /\ p_ts[x].alloc /\ p_ts[x].initialized /\ ~p_ts[x].finalized
    /\ SetPs(ThreadState_Delete(PsWorld, x, c))
    /\ LocalsUnchanged

\* PyThreadState_DeleteCurrent() on OS thread c, which holds the GIL
PyThreadState_DeleteCurrent(c) ==
    /\ FramePs
    /\ PsRunning /\ CallerIdle(c)
    /\ p_gil = c /\ p_current # 0
    /\ SetPs(ThreadState_DeleteCurrent(PsWorld, p_current, c))
    /\ LocalsUnchanged

\* PyInterpreterState_Clear(interp) on OS thread c: interpreter_clear with
\* the current thread state
PyInterpreterState_Clear(c, i) ==
    /\ FramePs
    /\ PsRunning /\ CallerIdle(c)
    /\ p_interp[i].alloc /\ Listed(i)
    /\ SetPs(interpreter_clear(PsWorld, i, p_current))
    /\ LocalsUnchanged

\* _PyThreadState_DeleteExcept(tstate) on OS thread c: "if there is a current
\* thread state, it *must* be the one passed as argument"
PyThreadState_DeleteExcept(c, x) ==
    /\ FramePs
    /\ PsRunning /\ CallerIdle(c)
    /\ p_ts[x].alloc /\ p_ts[x].initialized /\ ~p_ts[x].finalized
    /\ p_interp[p_ts[x].interp].alloc
    /\ x \in Members(ThreadList(p_ts, p_interp[p_ts[x].interp].head))
    /\ p_current = 0 \/ p_current = x
    /\ SetPs(ThreadState_DeleteExcept(PsWorld, x))
    /\ LocalsUnchanged

\* PyEval_SaveThread() on the OS thread that holds the GIL
PyEval_SaveThread(c) ==
    /\ FramePs
    /\ PsRunning /\ CallerIdle(c)
    /\ p_gil = c /\ p_current # 0
    /\ SetPs(Eval_SaveThread(PsWorld, c))
    /\ LocalsUnchanged

\* PyEval_RestoreThread(tstate) on OS thread c with one of its own thread
\* states; the call blocks while the GIL is taken
PyEval_RestoreThread(c, x) ==
    /\ FramePs
    /\ PsRunning /\ CallerIdle(c)
    /\ p_gil = 0
    /\ p_ts[x].alloc /\ tstate_is_alive(p_ts[x]) /\ tstate_is_bound(p_ts[x])
    /\ p_ts[x].thread_id = c
    /\ SetPs(Eval_RestoreThread(PsWorld, x, c))
    /\ LocalsUnchanged

\* a thread state bound to OS thread c is in a thread list or allocated
HasThreadState(ts, c) ==
    \E x \in TsIds : ts[x].thread_id = c /\ tstate_is_bound(ts[x])
                     /\ (x \in HeapTs => ts[x].alloc)

\* the calls of PyGILState_Ensure a thread has still to release, innermost last
Push(stack, oldstate, made) ==
    LET s == Append(stack, [oldstate |-> oldstate, made |-> made, peak |-> 0])
    IN [s EXCEPT ![1].peak = IF Len(s) > @ THEN Len(s) ELSE @]

\* PyGILState_Ensure() on OS thread c, up to the point where it has the GIL
\* or has to wait for it
PyGILState_Ensure(c, ok) ==
    /\ FramePs
    /\ PsRunning /\ CallerIdle(c)
    /\ Len(p_ensure[c]) < MaxEnsure
    /\ LET st == PsWorld
           tcur == p_tss[c]
           foreign == ~HasThreadState(p_ts, c)
       IN IF tcur = 0
             THEN /\ ok => CanCreateTs(p_auto)
                  /\ LET s1 == IF ok THEN new_threadstate(st, p_auto)
                               ELSE Py_FatalError(st, "Couldn't create thread-state for new thread")
                         x == s1.ret
                         s2 == bind_gilstate_tstate(bind_tstate(s1, x, c), x, c)
                         s3 == IF Failed(s2) THEN s2
                               ELSE Expect(s2, s2.ts[x].gilstate_counter = 1,
                                           "assert(tcur->gilstate_counter == 1)")
                         s4 == Then(s3, [s3 EXCEPT !.ts[x].gilstate_counter = 0])
                     IN /\ SetPs(s4)
                        /\ p_wait' = IF Failed(s4) THEN p_wait
                                     ELSE [p_wait EXCEPT ![c] = IF foreign THEN "foreign" ELSE "created"]
                        /\ UNCHANGED <<p_ensure, p_completed, p_zapped>>
             ELSE /\ ok
                  /\ IF ~p_ts[tcur].alloc
                        THEN /\ SetPs(Undefined(st, "PyGILState_Ensure reads a freed thread state"))
                             /\ LocalsUnchanged
                        ELSE IF holds_gil(st, tcur, c)
                           THEN /\ SetPs([st EXCEPT !.ts[tcur].gilstate_counter = @ + 1])
                                /\ p_ensure' = [p_ensure EXCEPT ![c] = Push(@, "LOCKED", "used")]
                                /\ UNCHANGED <<p_wait, p_completed, p_zapped>>
                           ELSE /\ SetPs(st)
                                /\ p_wait' = [p_wait EXCEPT ![c] = "used"]
                                /\ UNCHANGED <<p_ensure, p_completed, p_zapped>>

\* PyGILState_Ensure() on OS thread c, from PyEval_RestoreThread(tcur) on
PyGILState_Ensure_Restore(c) ==
    /\ FramePs
    /\ PsRunning /\ ~CallerIdle(c)
    /\ p_gil = 0
    /\ LET x == p_tss[c]
           s1 == Eval_RestoreThread(PsWorld, x, c)
           s2 == Then(s1, [s1 EXCEPT !.ts[x].gilstate_counter = @ + 1])
       IN /\ SetPs(s2)
          /\ p_ensure' = IF Failed(s2) THEN p_ensure
                         ELSE [p_ensure EXCEPT ![c] = Push(@, "UNLOCKED", p_wait[c])]
          /\ p_wait' = IF Failed(s2) THEN p_wait ELSE [p_wait EXCEPT ![c] = "no"]
          /\ UNCHANGED <<p_completed, p_zapped>>

\* PyGILState_Release(oldstate) on OS thread c, matching its innermost
\* PyGILState_Ensure
PyGILState_Release(c) ==
    /\ FramePs
    /\ PsRunning /\ CallerIdle(c)
    /\ p_ensure[c] # <<>>
    /\ LET n == Len(p_ensure[c])
           s1 == GILState_Release(PsWorld, c, p_ensure[c][n].oldstate)
       IN /\ SetPs(s1)
          /\ p_ensure' = IF Failed(s1) THEN p_ensure
                         ELSE [p_ensure EXCEPT ![c] = SubSeq(@, 1, n - 1)]
          /\ p_completed' = IF Failed(s1) \/ n > 1 THEN p_completed
                            ELSE [p_completed EXCEPT ![c] =
                                     IF p_ensure[c][1].made = "foreign"
                                        THEN p_ensure[c][1].peak ELSE 0]
          /\ UNCHANGED <<p_wait, p_zapped>>

\* PyGILState_Release(oldstate) on OS thread c without a PyGILState_Ensure
\* to match
PyGILState_Release_Extra(c, oldstate) ==
    /\ FramePs
    /\ PsRunning /\ CallerIdle(c)
    /\ p_ensure[c] = <<>>
    /\ SetPs(GILState_Release(PsWorld, c, oldstate))
    /\ p_completed' = [p_completed EXCEPT ![c] = 0]
    /\ UNCHANGED <<p_ensure, p_wait, p_zapped>>

GILSTATES == {"LOCKED", "UNLOCKED"}

\* the PyGILState API used from several OS threads
GilNext ==
    \/ \E c \in OsThreads : PyThreadState_New(c, p_auto)
    \/ \E c \in OsThreads : PyEval_SaveThread(c)
    \/ \E c \in OsThreads, x \in TsIds : PyEval_RestoreThread(c, x)
    \/ \E c \in OsThreads, ok \in BOOLEAN : PyGILState_Ensure(c, ok)
    \/ \E c \in OsThreads : PyGILState_Ensure_Restore(c)
    \/ \E c \in OsThreads : PyGILState_Release(c)
    \/ \E c \in OsThreads, o \in GILSTATES : PyGILState_Release_Extra(c, o)

\* interpreters created and deleted, with their thread states
InterpNext ==
    \/ \E c \in OsThreads : PyInterpreterState_New(c)
    \/ \E c \in OsThreads, i \in InterpIds : PyInterpreterState_Delete(c, i)
    \/ \E c \in OsThreads, i \in InterpIds : PyThreadState_New(c, i)
    \/ \E c \in OsThreads, x \in TsIds : PyThreadState_Clear(c, x)
    \/ \E c \in OsThreads, x \in TsIds : PyThreadState_Delete(c, x)

\* the life cycle of thread states
LifeNext ==
    \/ \E c \in OsThreads, i \in InterpIds : PyThreadState_New(c, i)
    \/ \E c \in OsThreads, i \in InterpIds : PyThreadState_New_Unbound(c, i)
    \/ \E c \in OsThreads, x \in TsIds : PyThreadState_Bind(c, x)
    \/ \E c \in OsThreads, x \in TsIds : PyThreadState_Clear(c, x)
    \/ \E c \in OsThreads, x \in TsIds : PyThreadState_Delete(c, x)
    \/ \E c \in OsThreads : PyEval_SaveThread(c)
    \/ \E c \in OsThreads, x \in TsIds : PyEval_RestoreThread(c, x)

\* the calls that run PyThreadState_Clear
ClearNext ==
    \/ \E c \in OsThreads : PyEval_SaveThread(c)
    \/ \E c \in OsThreads, x \in TsIds : PyEval_RestoreThread(c, x)
    \/ \E c \in OsThreads : PyGILState_Ensure(c, TRUE)
    \/ \E c \in OsThreads : PyGILState_Ensure_Restore(c)
    \/ \E c \in OsThreads : PyGILState_Release(c)
    \/ \E c \in OsThreads, i \in InterpIds : PyInterpreterState_Clear(c, i)
    \/ \E c \in OsThreads, x \in TsIds : PyThreadState_DeleteExcept(c, x)

\* the list of interpreters: created, deleted, and cut down to the main one
IdsNext ==
    \/ \E c \in OsThreads, audit_ok, lock_ok, alloc_ok \in BOOLEAN :
           PyInterpreterState_New_Try(c, audit_ok, lock_ok, alloc_ok)
    \/ \E c \in OsThreads, i \in InterpIds : PyInterpreterState_Delete(c, i)
    \/ \E c \in OsThreads : PyInterpreterState_DeleteExceptMain(c)
    \/ \E c \in OsThreads, i \in InterpIds : PyThreadState_New(c, i)

\* the thread states bound to OS thread c that exist
BoundTo(c) == {x \in TsIds : /\ p_ts[x].alloc /\ p_ts[x].initialized /\ ~p_ts[x].finalized
                             /\ p_ts[x].thread_id = c}

InSomeList(x) == \E i \in InterpIds : x \in Members(ThreadList(p_ts, p_interp[i].head))

\* C6: on an OS thread that had no thread state, nested PyGILState_Ensure
\* calls create exactly one thread state, which stays alive and listed while
\* any of them is unreleased (its counter is the nesting depth); when the
\* outermost one has been released the thread has no thread state left: the
\* TSS slot is empty and nothing bound to the thread is allocated or listed.
\* (Stated of a process that has not been stopped by a fatal error.)
C6_NestedEnsureRelease ==
    PsRunning => \A c \in OsThreads :
        LET s == p_ensure[c]
        IN /\ (s # <<>> /\ s[1].made = "foreign") =>
                 /\ BoundTo(c) = {p_tss[c]}
                 /\ p_ts[p_tss[c]].gilstate_counter = Len(s)
                 /\ ~p_ts[p_tss[c]].cleared
                 /\ p_tss[c] \in Members(ThreadList(p_ts, p_interp[p_auto].head))
                 /\ \A k \in 2..Len(s) : s[k].made = "used"
           /\ (s = <<>> /\ p_completed[c] > 0 /\ CallerIdle(c)) =>
                 /\ p_tss[c] = 0
                 /\ BoundTo(c) = {}
                 /\ \A x \in TsIds : p_ts[x].thread_id = c =>
                        ~InSomeList(x) /\ (x \in HeapTs => ~p_ts[x].alloc)

C6_Witness ==
    \E c \in OsThreads :
        /\ c # 1
        /\ PsRunning
        /\ p_completed[c] >= 2
        /\ p_ensure[c] = <<>>
        /\ p_tss[c] = 0

\* C7: a PyGILState_Release that matches no PyGILState_Ensure ends in a
\* fatal error, whether the thread has no thread state or one that came from
\* PyThreadState_New.
C7_ExtraReleaseRejected ==
    [][\A c \in OsThreads, o \in GILSTATES :
          PyGILState_Release_Extra(c, o) => p_fail'.kind = "fatal"]_vars

Without(seq, x) == SelectSeq(seq, LAMBDA y : y # x)

\* a well-formed doubly linked list without repetitions
WellFormedList(ts, head) ==
    LET l == ThreadList(ts, head)
    IN /\ Len(l) <= Cardinality(TsIds)
       /\ \A j, k \in 1..Len(l) : l[j] = l[k] => j = k
       /\ \A k \in 1..Len(l) : ts[l[k]].prev = IF k = 1 THEN 0 ELSE l[k - 1]

\* a thread state that was bound and cleared, is listed and is not current
ReadyToDelete(x) ==
    /\ x # p_current
    /\ tstate_is_bound(p_ts[x])
    /\ p_ts[x].cleared
    /\ p_ts[x].interp # 0
    /\ x \in Members(ThreadList(p_ts, p_interp[p_ts[x].interp].head))

\* PyThreadState_Delete went through and took x, and only x, out of the list
DeletedFromList(x) ==
    LET i == p_ts[x].interp
    IN /\ p_fail'.kind = "none"
       /\ ThreadList(p_ts', p_interp'[i].head) = Without(ThreadList(p_ts, p_interp[i].head), x)
       /\ WellFormedList(p_ts', p_interp'[i].head)

StillCurrent == [kind |-> "fatal", msg |-> "tstate is still current"]

\* C9: PyThreadState_Delete on the current thread state ends in the fatal
\* error "still current" and changes nothing: thread lists, the current
\* slot, the TSS slots and every status flag are as before the call.
C9_DeleteCurrentRejected ==
    [][\A c \in OsThreads, x \in TsIds :
          (PyThreadState_Delete(c, x) /\ x = p_current) =>
              /\ p_fail' = StillCurrent
              /\ UNCHANGED <<p_ts, p_interp, p_ihead, p_main, p_current, p_tss, p_gil>>]_vars

C9_Witness ==
    /\ p_fail = StillCurrent
    /\ p_current # 0
    /\ p_ts[p_current].active
    /\ ~p_ts[p_current].finalized

SsizeBits == 3           \* width of Py_ssize_t and of a pointer, in bits
MaxLen == 2              \* length of a bytes or str object

SsizeRadix == 2 ^ SsizeBits
PY_SSIZE_T_MAX == (2 ^ (SsizeBits - 1)) - 1
PY_SSIZE_T_MIN == -(2 ^ (SsizeBits - 1))

ByteValues == {0, 65, 255}
CodePoints == {65, 255, 256, 65536}
SeqsUpTo(S, n) == UNION {[1..k -> S] : k \in 0..n}

\* the objects handed to _PyObject_GetCrossInterpreterData
XidValues ==
    {[type |-> "int", val |-> <<n>>] : n \in (PY_SSIZE_T_MIN - 2)..(PY_SSIZE_T_MAX + 2)}
    \cup {[type |-> "bytes", val |-> b] : b \in SeqsUpTo(ByteValues, MaxLen)}
    \cup {[type |-> "str", val |-> u] : u \in SeqsUpTo(CodePoints, MaxLen)}
    \cup {[type |-> "NoneType", val |-> <<>>], [type |-> "list", val |-> <<>>],
          [type |-> "object", val |-> <<>>]}

NoObj == [type |-> "", val |-> <<>>, refcnt |-> 0]
NoResult == [type |-> "", val |-> <<>>]
ZeroData == [data |-> 0, obj |-> FALSE, interp |-> 0, new_object |-> "", free |-> FALSE]
NoShared == [alloc |-> FALSE, kind |-> 0, len |-> 0]
SharedAddr == 1
NeverRan == [n |-> 0, cur |-> 0, id |-> -1, owner |-> -1]

XidInit ==
    /\ x_pc = "idle"
    /\ x_obj = NoObj
    /\ x_data = ZeroData
    /\ x_shared = NoShared
    /\ x_ret = 0
    /\ x_err = ""
    /\ x_msg = <<>>
    /\ x_result = NoResult
    /\ x_from = [made |-> 0, rebuilt |-> 0]
    /\ x_ran = NeverRan

\* The memory a cross-interpreter routine works on
XidWorld == [ps |-> PsWorld, obj |-> x_obj, data |-> x_data, shared |-> x_shared,
             ret |-> 0, err |-> "", msg |-> <<>>, ran |-> x_ran]

SetXid(x) ==
    \E y \in {x} :
        /\ SetPs(y.ps)
        /\ x_obj' = y.obj
        /\ x_data' = y.data
        /\ x_shared' = y.shared
        /\ x_ret' = y.ret
        /\ x_err' = y.err
        /\ x_msg' = y.msg
        /\ x_ran' = y.ran

XFailed(x) == Failed(x.ps)

\* ---- the C representation of the built-in types ----

\* PyLong_AsSsize_t: -1 and OverflowError outside the range of Py_ssize_t
PyLong_AsSsize_t(n) ==
    IF n < PY_SSIZE_T_MIN \/ n > PY_SSIZE_T_MAX
       THEN [value |-> -1, err |-> "OverflowError"]
       ELSE [value |-> n, err |-> ""]

\* (void *)value: the bits of a Py_ssize_t as a pointer
ToVoidPtr(value) == value % SsizeRadix

\* (variant: the pointer is read back as an unsigned number)
FromVoidPtr_Unsigned(p) == p

\* (Py_ssize_t)(data->data): the bits of a pointer as a Py_ssize_t
FromVoidPtr(p) == IF p > PY_SSIZE_T_MAX THEN p - SsizeRadix ELSE p

Max(S) == CHOOSE m \in S : \A k \in S : k <= m

\* PyUnicode_KIND: bytes for each code point, by the largest code point
PyUnicode_KIND(u) ==
    LET top == Max({0} \cup {u[k] : k \in 1..Len(u)})
    IN IF top < 256 THEN 1 ELSE IF top < 65536 THEN 2 ELSE 4

\* one code unit of kind bytes, least significant byte first
RECURSIVE UnitBytes(_, _)
UnitBytes(cp, kind) ==
    IF kind = 0 THEN <<>> ELSE <<cp % 256>> \o UnitBytes(cp \div 256, kind - 1)

\* PyUnicode_DATA: the buffer of a str object
RECURSIVE PyUnicode_DATA(_, _)
PyUnicode_DATA(u, kind) ==
    IF u = <<>> THEN <<>> ELSE UnitBytes(Head(u), kind) \o PyUnicode_DATA(Tail(u), kind)

RECURSIVE UnitValue(_)
UnitValue(bytes) ==
    IF bytes = <<>> THEN 0 ELSE Head(bytes) + 256 * UnitValue(Tail(bytes))

\* PyUnicode_FromKindAndData(kind, buffer, len)
RECURSIVE PyUnicode_FromKindAndData(_, _, _)
PyUnicode_FromKindAndData(kind, buffer, len) ==
    IF len = 0 THEN <<>>
    ELSE <<UnitValue(SubSeq(buffer, 1, kind))>>
         \o PyUnicode_FromKindAndData(kind, SubSeq(buffer, kind + 1, Len(buffer)), len - 1)

\* PyBytes_AsStringAndSize: ob_sval, the bytes followed by a NUL
PyBytes_AS_STRING(b) == b \o <<0>>

\* PyBytes_FromStringAndSize(bytes, len)
PyBytes_FromStringAndSize(buffer, len) == SubSeq(buffer, 1, len)

\* ---- the payload ----

\* _xidata_init
xidata_init(x) ==
    LET reset(e) == IF Failed(e) THEN [x EXCEPT !.ps = e]
                    ELSE [x EXCEPT !.data = [ZeroData EXCEPT !.interp = -1]]
    IN reset(Expect(Expect(x.ps, x.data.data = 0, "assert(data->data == NULL)"),
                    ~x.data.obj, "assert(data->obj == NULL)"))

\* _xidata_clear
xidata_clear(x) ==
    IF XFailed(x) THEN x
    ELSE [x EXCEPT !.shared.alloc = IF x.data.free /\ x.data.data # 0 THEN FALSE ELSE @,
                   !.data.data = 0,
                   !.obj.refcnt = IF x.data.obj THEN @ - 1 ELSE @,
                   !.data.obj = FALSE]

\* _PyCrossInterpreterData_Init(data, interp, shared, obj, new_object);
\* interp and obj may be NULL
CrossInterpreterData_Init(x, i, shared, obj_given, new_object) ==
    LET fill(b) ==
            IF XFailed(b) THEN b
            ELSE [b EXCEPT !.data.data = shared,
                           !.data.obj = obj_given,
                           !.obj.refcnt = IF obj_given THEN @ + 1 ELSE @,
                           !.data.interp = IF i # 0 THEN b.ps.interp[i].id ELSE -1,
                           !.data.new_object = new_object]
        with_obj(a) ==
            IF XFailed(a) \/ ~obj_given THEN a
            ELSE [a EXCEPT !.ps = Expect(a.ps, i # 0, "assert(interp != NULL)")]
    IN fill(with_obj(xidata_init(
                [x EXCEPT !.ps = Expect(x.ps, new_object # "", "assert(new_object != NULL)")])))

\* _PyCrossInterpreterData_InitWithSize; ok: PyMem_Malloc returns a block
CrossInterpreterData_InitWithSize(x, i, obj_given, new_object, ok) ==
    LET malloc(a) ==
            IF XFailed(a) THEN a
            ELSE IF ~ok THEN [a EXCEPT !.ret = -1]
            ELSE [a EXCEPT !.data.data = SharedAddr,
                           !.shared = [NoShared EXCEPT !.alloc = TRUE],
                           !.data.free = TRUE, !.ret = 0]
    IN malloc(CrossInterpreterData_Init(
                  [x EXCEPT !.ps = Expect(x.ps, i # 0, "assert(interp != NULL)")],
                  i, 0, obj_given, new_object))

\* _PyCrossInterpreterData_Clear(interp, data), run with the thread state
\* x.ps.cur current
CrossInterpreterData_Clear(x, i) ==
    LET ran(a) ==
            IF XFailed(a) THEN a
            ELSE [a EXCEPT !.ran = [n |-> @.n + 1, cur |-> x.ps.cur,
                                    id |-> IF x.ps.cur = 0 THEN -1
                                           ELSE x.ps.interp[x.ps.ts[x.ps.cur].interp].id,
                                    owner |-> x.data.interp]]
    IN ran(xidata_clear(
               [x EXCEPT !.ps = Expect(x.ps, i = 0 \/ x.data.interp = x.ps.interp[i].id,
                                       "assert(interp == NULL || data->interp == interp->id)")]))

\* _check_xidata
check_xidata(x) ==
    IF XFailed(x) THEN x
    ELSE IF x.data.interp < 0 THEN [x EXCEPT !.ret = -1, !.err = "SystemError: missing interp"]
    ELSE IF x.data.new_object = ""
       THEN [x EXCEPT !.ret = -1, !.err = "SystemError: missing new_object func"]
    ELSE [x EXCEPT !.ret = 0]

\* interp_look_up_id / _PyInterpreterState_LookUpID: NULL if no interpreter
\* of the list has the id
InterpreterState_LookUpID(st, id) ==
    IF id < 0 \/ \A i \in Members(InterpList(st.interp, st.ihead)) : st.interp[i].id # id
       THEN 0
       ELSE CHOOSE i \in Members(InterpList(st.interp, st.ihead)) : st.interp[i].id = id

\* _call_in_interpreter: does the call have to switch thread states?
call_in_interpreter_switches(st, i) == i # st.ts[st.cur].interp

\* (variant: the thread state switched to stays current)
call_in_interpreter_stays(a, save_tstate, c) == a

\* _call_in_interpreter: "Switch back."
call_in_interpreter_switch_back(a, save_tstate, c) ==
    IF XFailed(a) \/ save_tstate = 0 THEN a
    ELSE [a EXCEPT !.ps = ThreadState_Swap(a.ps, save_tstate, c)]

\* _call_in_interpreter(interp, _PyCrossInterpreterData_Clear, data) on OS thread c
call_in_interpreter(x, i, c) ==
    LET call(s1, save_tstate) ==
            call_in_interpreter_switch_back(
                CrossInterpreterData_Clear([x EXCEPT !.ps = s1], i), save_tstate, c)
        switched(s1) == call(s1, s1.ret)
    IN IF XFailed(x) THEN x
       ELSE IF x.ps.cur = 0
          THEN [x EXCEPT !.ps = Undefined(x.ps, "current_fast_get(runtime)->interp with no current thread state")]
       ELSE IF call_in_interpreter_switches(x.ps, i)
          THEN switched(ThreadState_Swap(x.ps, x.ps.interp[i].head, c))
       ELSE call(x.ps, 0)

\* _PyCrossInterpreterData_Release on OS thread c
CrossInterpreterData_Release(x, c) ==
    LET done(a) == IF XFailed(a) THEN a ELSE [a EXCEPT !.ret = 0]
        in_interp(i) ==
            IF i = 0
               THEN [x EXCEPT !.ret = -1, !.err = "RuntimeError: unrecognized interpreter ID"]
               ELSE done(call_in_interpreter(x, i, c))
    IN IF XFailed(x) THEN x
       ELSE IF ~x.data.free /\ ~x.data.obj THEN [x EXCEPT !.data.data = 0, !.ret = 0]
       ELSE in_interp(InterpreterState_LookUpID(x.ps, x.data.interp))

\* ---- the snapshot functions of the built-in types ----

\* _bytes_shared
bytes_shared(x, i, ok) ==
    LET type_error(b) == IF XFailed(b) THEN b ELSE [b EXCEPT !.ret = -1, !.err = "TypeError"]
        fill(a) ==
            IF XFailed(a) \/ a.ret < 0 THEN a
            ELSE IF x.obj.type # "bytes" THEN type_error(CrossInterpreterData_Clear(a, i))
            ELSE [a EXCEPT !.shared.len = Len(x.obj.val), !.ret = 0]
    IN fill(CrossInterpreterData_InitWithSize(x, i, TRUE, "_new_bytes_object", ok))

\* _str_shared: shared->kind
str_shared_kind(u) == PyUnicode_KIND(u)

\* _str_shared
str_shared(x, i, ok) ==
    LET fill(a) ==
            IF XFailed(a) \/ a.ret < 0 THEN a
            ELSE [a EXCEPT !.shared.kind = str_shared_kind(x.obj.val),
                           !.shared.len = Len(x.obj.val), !.ret = 0]
    IN fill(CrossInterpreterData_InitWithSize(x, i, TRUE, "_new_str_object", ok))

\* _long_shared
long_shared(x, i) ==
    LET done(a) == IF XFailed(a) THEN a ELSE [a EXCEPT !.ret = 0]
        shared(r) ==
            IF r.value = -1 /\ r.err # ""
               THEN [x EXCEPT !.ret = -1, !.err = "OverflowError: try sending as bytes"]
               ELSE done(CrossInterpreterData_Init(x, i, ToVoidPtr(r.value), FALSE,
                                                   "_new_long_object"))
    IN shared(PyLong_AsSsize_t(x.obj.val[1]))

\* _none_shared
none_shared(x, i) ==
    LET done(a) == IF XFailed(a) THEN a ELSE [a EXCEPT !.ret = 0]
    IN done(CrossInterpreterData_Init(x, i, 0, FALSE, "_new_none_object"))

\* _register_builtins_for_crossinterpreter_data / _PyCrossInterpreterData_Lookup:
\* the snapshot function registered for the exact type, "" for NULL
CrossInterpreterData_Lookup(type) ==
    CASE type = "NoneType" -> "_none_shared"
      [] type = "int" -> "_long_shared"
      [] type = "bytes" -> "_bytes_shared"
      [] type = "str" -> "_str_shared"
      [] OTHER -> ""

\* getdata(tstate, obj, data)
xid_getdata(x, getdata, i, ok) ==
    CASE getdata = "_none_shared" -> none_shared(x, i)
      [] getdata = "_long_shared" -> long_shared(x, i)
      [] getdata = "_bytes_shared" -> bytes_shared(x, i, ok)
      [] OTHER -> str_shared(x, i, ok)

\* PyObject_Str, as PyErr_Format's %S calls it, of the objects whose type
\* has no snapshot function: an empty list and an instance of object
PyObject_Str(o) ==
    CASE o.type = "list" -> <<"[]">>
      [] o.type = "object" -> <<"<", "object", " object at 0x1>">>
      [] OTHER -> <<o.type>>

\* _lookup_getdata when _PyCrossInterpreterData_Lookup returns NULL:
\* PyErr_Format(PyExc_ValueError, "%S does not support cross-interpreter data", obj)
lookup_getdata_error(a) ==
    [a EXCEPT !.ret = -1,
              !.err = "ValueError: does not support cross-interpreter data",
              !.msg = PyObject_Str(a.obj) \o <<" does not support cross-interpreter data">>]

\* (variant: the reference taken for the call is kept)
Then_Py_DECREF_Skipped(a) == a

\* _PyObject_GetCrossInterpreterData, "if (getdata == NULL) { Py_DECREF(obj);"
Then_Py_DECREF(a) == [a EXCEPT !.obj.refcnt = @ - 1]

\* _PyObject_GetCrossInterpreterData(obj, data) on OS thread c
ObjectGetCrossInterpreterData(x, c, ok) ==
    LET released(f, err) == IF XFailed(f) THEN f ELSE [f EXCEPT !.ret = -1, !.err = err]
        checked(e) ==
            IF XFailed(e) \/ e.ret = 0 THEN e
            ELSE released(CrossInterpreterData_Release(e, c), e.err)
        validate(d, i) ==
            IF XFailed(d) THEN d
            ELSE IF d.ret # 0 THEN [d EXCEPT !.ret = -1]
            ELSE checked(check_xidata([d EXCEPT !.data.interp = d.ps.interp[i].id]))
        decref(b) == IF XFailed(b) THEN b ELSE [b EXCEPT !.obj.refcnt = @ - 1]
        snapshot(a, getdata, i) ==
            IF getdata = ""
               THEN Then_Py_DECREF(lookup_getdata_error(a))
               ELSE validate(decref(xid_getdata(a, getdata, i, ok)), i)
    IN IF x.ps.cur = 0
          THEN [x EXCEPT !.ps = IF x.ps.debug
                                   THEN Py_FatalError(x.ps, "_Py_EnsureTstateNotNULL")
                                   ELSE Undefined(x.ps, "tstate->interp with no current thread state")]
          ELSE snapshot([x EXCEPT !.data = [ZeroData EXCEPT !.interp = -1], !.obj.refcnt = @ + 1],
                        CrossInterpreterData_Lookup(x.obj.type),
                        x.ps.ts[x.ps.cur].interp)

\* the object's buffer as the payload sees it: readable while the object lives
xid_buffer(x) ==
    IF x.obj.type = "bytes" THEN PyBytes_AS_STRING(x.obj.val)
    ELSE PyUnicode_DATA(x.obj.val, PyUnicode_KIND(x.obj.val))

\* _PyCrossInterpreterData_NewObject: data->new_object(data)
CrossInterpreterData_NewObject(x) ==
    CASE x.data.new_object = "_new_none_object" -> [type |-> "NoneType", val |-> <<>>]
      [] x.data.new_object = "_new_long_object" ->
            [type |-> "int", val |-> <<FromVoidPtr(x.data.data)>>]
      [] x.data.new_object \in {"_new_bytes_object", "_new_str_object"} ->
            IF ~x.shared.alloc \/ x.data.data # SharedAddr \/ x.obj.refcnt <= 0
               THEN [type |-> "freed memory", val |-> <<>>]
            ELSE IF x.data.new_object = "_new_bytes_object"
               THEN [type |-> "bytes", val |-> PyBytes_FromStringAndSize(xid_buffer(x), x.shared.len)]
            ELSE [type |-> "str",
                  val |-> PyUnicode_FromKindAndData(x.shared.kind, xid_buffer(x), x.shared.len)]
      [] OTHER -> [type |-> "NULL function", val |-> <<>>]

\* ---- the calls a program makes ----

\* PyThreadState_Swap(newts) on OS thread c, to one of its thread states
PyThreadState_Swap(c, x) ==
    /\ FrameXid
    /\ PsRunning /\ CallerIdle(c)
    /\ p_gil = c
    /\ p_ts[x].alloc /\ tstate_is_alive(p_ts[x]) /\ tstate_is_bound(p_ts[x])
    /\ p_ts[x].thread_id = c
    /\ x # p_current
    /\ SetPs(ThreadState_Swap(PsWorld, x, c))
    /\ LocalsUnchanged
    /\ UNCHANGED xidVars

\* _PyObject_GetCrossInterpreterData(obj, data) on OS thread c, for a fresh
\* object the caller owns
Xid_GetCrossInterpreterData(c, v, ok) ==
    /\ FrameXid
    /\ PsRunning /\ CallerIdle(c)
    /\ p_gil = c
    /\ x_pc = "idle"
    /\ \E x \in {ObjectGetCrossInterpreterData(
                      [XidWorld EXCEPT !.obj = [type |-> v.type, val |-> v.val, refcnt |-> 1]],
                      c, ok)} :
          /\ SetXid(x)
          /\ x_pc' = IF XFailed(x) \/ x.ret # 0 THEN "failed" ELSE "made"
          /\ x_from' = [x_from EXCEPT !.made = IF p_current = 0 THEN 0 ELSE p_ts[p_current].interp]
    /\ x_result' = x_result
    /\ LocalsUnchanged

\* _PyObject_GetCrossInterpreterData(obj, data) on OS thread c with a struct
\* used before (its payload released, or a call on it failed), for a fresh
\* object the caller owns
Xid_GetCrossInterpreterData_Again(c, v) ==
    /\ FrameXid
    /\ PsRunning /\ CallerIdle(c)
    /\ p_gil = c
    /\ x_pc \in {"released", "failed"}
    /\ x_ran.n <= MaxRefill
    /\ ~x_data.obj
    /\ \E x \in {ObjectGetCrossInterpreterData(
                      [XidWorld EXCEPT !.obj = [type |-> v.type, val |-> v.val, refcnt |-> 1]],
                      c, TRUE)} :
          /\ SetXid(x)
          /\ x_pc' = IF XFailed(x) \/ x.ret # 0 THEN "failed" ELSE "made"
          /\ x_from' = [x_from EXCEPT !.made = IF p_current = 0 THEN 0 ELSE p_ts[p_current].interp]
    /\ x_result' = x_result
    /\ LocalsUnchanged

\* Py_DECREF(obj) on OS thread c: the caller gives up its reference
Xid_Py_DECREF(c) ==
    /\ FrameXid
    /\ PsRunning /\ CallerIdle(c)
    /\ p_gil = c
    /\ x_pc \in {"made", "failed"}
    /\ x_obj.refcnt > (IF x_data.obj THEN 1 ELSE 0)
    /\ x_obj' = [x_obj EXCEPT !.refcnt = @ - 1]
    /\ UNCHANGED <<x_pc, x_data, x_shared, x_ret, x_err, x_msg, x_result, x_from, x_ran>>
    /\ UNCHANGED psVars

\* _PyCrossInterpreterData_NewObject(data) on OS thread c
Xid_NewObject(c) ==
    /\ FrameXid
    /\ PsRunning /\ CallerIdle(c)
    /\ p_gil = c
    /\ x_pc = "made"
    /\ x_result = NoResult
    /\ x_result' = CrossInterpreterData_NewObject(XidWorld)
    /\ p_current # 0
    /\ x_from' = [x_from EXCEPT !.rebuilt = p_ts[p_current].interp]
    /\ UNCHANGED <<x_pc, x_obj, x_data, x_shared, x_ret, x_err, x_msg, x_ran>>
    /\ UNCHANGED psVars

\* _PyCrossInterpreterData_Release(data) on OS thread c
Xid_Release(c) ==
    /\ FrameXid
    /\ PsRunning /\ CallerIdle(c)
    /\ p_gil = c
    /\ x_pc = "made"
    /\ SetXid(CrossInterpreterData_Release(XidWorld, c))
    /\ x_pc' = "released"
    /\ UNCHANGED <<x_result, x_from>>
    /\ LocalsUnchanged

\* payloads made in one interpreter and rebuilt in another, on the main OS thread
XidNext ==
    \/ PyInterpreterState_New(1)
    \/ \E i \in InterpIds : PyThreadState_New(1, i)
    \/ \E x \in TsIds : PyThreadState_Swap(1, x)
    \/ \E v \in XidValues, ok \in BOOLEAN : Xid_GetCrossInterpreterData(1, v, ok)
    \/ Xid_Py_DECREF(1)
    \/ Xid_NewObject(1)
    \/ Xid_Release(1)

\* one object of each type that has something to release, and an int
XidSamples == {v \in XidValues : v.val \in {<<1>>, <<65>>}}

\* payloads released while thread states come and go, on the main OS thread
XidReleaseNext ==
    \/ PyInterpreterState_New(1)
    \/ \E i \in InterpIds : PyThreadState_New(1, i)
    \/ \E x \in TsIds : PyThreadState_Swap(1, x)
    \/ \E x \in TsIds : PyThreadState_Clear(1, x)
    \/ \E x \in TsIds : PyThreadState_Delete(1, x)
    \/ \E v \in XidSamples : Xid_GetCrossInterpreterData(1, v, TRUE)
    \/ Xid_Release(1)

\* payloads released from another interpreter, or after theirs was deleted
XidSwapNext ==
    \/ PyInterpreterState_New(1)
    \/ \E i \in InterpIds : PyInterpreterState_Delete(1, i)
    \/ \E i \in InterpIds : PyThreadState_New(1, i)
    \/ \E x \in TsIds : PyThreadState_Swap(1, x)
    \/ \E v \in XidSamples : Xid_GetCrossInterpreterData(1, v, TRUE)
    \/ Xid_Release(1)

\* objects of types with and without a snapshot function
XidTypeSamples == XidSamples \cup {v \in XidValues : CrossInterpreterData_Lookup(v.type) = ""}

\* payload structs filled, released and filled again
XidTypeNext ==
    \/ PyInterpreterState_New(1)
    \/ \E i \in InterpIds : PyThreadState_New(1, i)
    \/ \E x \in TsIds : PyThreadState_Swap(1, x)
    \/ \E v \in XidTypeSamples : Xid_GetCrossInterpreterData(1, v, TRUE)
    \/ Xid_Release(1)
    \/ \E v \in XidTypeSamples : Xid_GetCrossInterpreterData_Again(1, v)

\* ---- claims ----

XidSupported == {v \in XidValues : v.type \in {"int", "bytes", "str", "NoneType"}}
XidInRange(v) == v.type = "int" => v.val[1] \in PY_SSIZE_T_MIN..PY_SSIZE_T_MAX

\* the object a payload was made from, as a value
XidExported == [type |-> x_obj.type, val |-> x_obj.val]

\* C11 as stated: every int, bytes, str and None is exported by
\* _PyObject_GetCrossInterpreterData, and _PyCrossInterpreterData_NewObject in
\* a different interpreter rebuilds a value of the same type and content.
C11_RoundTripEveryValue ==
    [][/\ \A v \in XidSupported :
              Xid_GetCrossInterpreterData(1, v, TRUE) => x_pc' = "made" /\ x_ret' = 0
       /\ Xid_NewObject(1) /\ x_from'.rebuilt # x_from'.made => x_result' = XidExported]_vars

\* C11 amended: an int in the range of Py_ssize_t, a bytes object, a str and
\* None are exported (the payload's memory being available) and rebuilt equal
\* in a different interpreter; an int outside that range is not exported, the
\* call returns -1 with OverflowError.
C11_RoundTrip ==
    [][/\ \A v \in XidSupported :
              Xid_GetCrossInterpreterData(1, v, TRUE) =>
                  IF XidInRange(v)
                     THEN x_pc' = "made" /\ x_ret' = 0
                     ELSE /\ x_pc' = "failed" /\ x_ret' = -1
                          /\ x_err' = "OverflowError: try sending as bytes"
       /\ Xid_NewObject(1) /\ x_from'.rebuilt # x_from'.made => x_result' = XidExported]_vars

\* a negative int and a str of two-byte code units were rebuilt in another
\* interpreter than the one that exported them
C11_Witness ==
    /\ x_from.rebuilt # 0
    /\ x_from.rebuilt # x_from.made
    /\ x_result = XidExported
    /\ \/ x_result.type = "int" /\ x_result.val[1] < 0
       \/ x_result.type = "str" /\ x_result.val = <<256, 65>>

\* C12: whenever _PyCrossInterpreterData_Release has run the payload's release
\* (_PyCrossInterpreterData_Clear: free of data->data, decref of data->obj),
\* the thread state that was current at that moment belonged to the
\* interpreter whose id is data->interp.
C12_ReleaseRunsInOwningInterpreter ==
    x_pc = "released" /\ x_ran.n > 0 => x_ran.cur # 0 /\ x_ran.id = x_ran.owner

(***************************************************************************)
(* Weak references in the build with Py_GIL_DISABLED: threads dereference  *)
(* the weak references of one object O with PyWeakref_GetRef while the     *)
(* last strong reference to O is released and its deallocator runs         *)
(* PyObject_ClearWeakRefs and frees O.  The counters of O are those of the *)
(* split-counter machine above, the list is that of the weak reference     *)
(* machine.                                                                *)
(***************************************************************************)
MaxGets == 2             \* PyWeakref_GetRef calls

GetIdle == [pc |-> "idle", n |-> 0, shared |-> 0]
NoView == [ret |-> -1, mem |-> "", dealloc |-> 0]

RaceIdle ==
    /\ g_loc = <<>>
    /\ g_view = <<>>
    /\ g_gets = 0
    /\ g_mem = ""
    /\ g_dpc = ""
    /\ g_tuple = <<>>

\* PyWeakref_NewRef(O, callback) on the list st, giving the weak reference self
RaceNewRef(st, self, callback) ==
    LET b == get_basic_refs(st)
        prev == IF b.proxy = 0 THEN b.ref ELSE b.proxy
        s1 == new_weakref(st, self, "ref", callback)
    IN IF ~callback \/ prev = 0 THEN insert_head(s1, self) ELSE insert_after(s1, self, prev)

\* O with one or two weak references, the last one with a callback
RaceLists ==
    LET empty == [head |-> 0, node |-> [n \in WrIds |-> FreeNode]]
    IN {RaceNewRef(empty, 1, cb) : cb \in BOOLEAN}
       \cup {RaceNewRef(RaceNewRef(empty, 1, cb), 2, TRUE) : cb \in BOOLEAN}

\* thread 1 owns O and holds the only strong reference; init_weakref has set
\* the flag _Py_REF_MAYBE_WEAKREF
RaceInit ==
    /\ ob_tid = 1
    /\ ob_ref_local = 1
    /\ ob_ref_shared = Py_REF_MAYBE_WEAKREF
    /\ rpc = [t \in Threads |-> Idle]
    /\ held = [t \in Threads |-> IF t = 1 THEN 1 ELSE 0]
    /\ brc_queue = 0
    /\ n_dealloc = 0
    /\ n_acquire = 1
    /\ n_release = 0
    /\ \E st \in RaceLists : w_head = st.head /\ w_node = st.node
    /\ w_o_refcnt = 0
    /\ w_pc = "idle"
    /\ w_pending = <<>>
    /\ w_called = <<>>
    /\ w_ret = 0
    /\ w_exc = ""
    /\ w_saved = ""
    /\ w_tuple = <<>>
    /\ w_unraisable = <<>>
    /\ w_born = <<>>
    /\ g_loc = [t \in Threads |-> GetIdle]
    /\ g_view = [t \in Threads |-> NoView]
    /\ g_gets = 0
    /\ g_mem = "live"
    /\ g_dpc = "none"
    /\ g_tuple = <<>>

RaceWrRest == UNCHANGED <<w_o_refcnt, w_pc, w_pending, w_called, w_ret, w_exc, w_saved,
                          w_tuple, w_unraisable, w_born>>
RaceListUnchanged == UNCHANGED <<w_head, w_node>> /\ RaceWrRest
RaceDeallocUnchanged == UNCHANGED <<g_mem, g_dpc, g_tuple>>
RaceGetUnchanged == UNCHANGED <<g_loc, g_view, g_gets>>

\* ---- the routines of the split-counter machine, run by a thread that is ----
\* ---- not inside PyWeakref_GetRef                                        ----
Race_Py_DECREF(t) == g_loc[t].pc = "idle" /\ Py_DECREF(t)

\* ---- PyWeakref_GetRef(ref, &obj) -> _PyWeakref_GET_REF -> _Py_TryIncref ----

\* return of PyWeakref_GetRef on thread t: ret is 1 with *pobj a new strong
\* reference, or 0 with *pobj NULL
GetRef_Return(t, ret) ==
    /\ g_view' = [g_view EXCEPT ![t] = [ret |-> ret, mem |-> g_mem, dealloc |-> n_dealloc]]
    /\ g_loc' = [g_loc EXCEPT ![t].pc = "idle"]
    /\ held' = [held EXCEPT ![t] = @ + ret]
    /\ n_acquire' = n_acquire + ret

\* _PyWeakref_GET_REF: obj = _Py_atomic_load_ptr(&ref->wr_object);
\* if (obj == Py_None) return NULL
GetRef_Load(t, n) ==
    /\ FrameRace
    /\ g_loc[t].pc = "idle" /\ rpc[t].pc = "idle"
    /\ g_gets < MaxGets
    /\ w_node[n].alloc
    /\ g_gets' = g_gets + 1
    /\ IF w_node[n].wr_object = "None"
          THEN GetRef_Return(t, 0)
          ELSE /\ g_loc' = [g_loc EXCEPT ![t] = [pc |-> "fast", n |-> n, shared |-> 0]]
               /\ UNCHANGED <<g_view, held, n_acquire>>
    /\ UNCHANGED <<ob_tid, ob_ref_local, ob_ref_shared, rpc, brc_queue, n_dealloc, n_release>>
    /\ RaceListUnchanged /\ RaceDeallocUnchanged

\* _Py_TryIncrefFast(op): the owner of the object at that address bumps the
\* local count
TryIncrefFast(t) ==
    /\ FrameRace
    /\ g_loc[t].pc = "fast"
    /\ IF ob_tid = t
          THEN /\ ob_ref_local' = ob_ref_local + 1
               /\ GetRef_Return(t, 1)
          ELSE /\ g_loc' = [g_loc EXCEPT ![t].pc = "shared_cas", ![t].shared = ob_ref_shared]
               /\ UNCHANGED <<ob_ref_local, g_view, held, n_acquire>>
    /\ UNCHANGED <<ob_tid, ob_ref_shared, rpc, brc_queue, n_dealloc, n_release, g_gets>>
    /\ RaceListUnchanged /\ RaceDeallocUnchanged

\* _Py_TryIncRefShared: "if the shared refcount is zero and the object is
\* either merged or may not have weak references, then we cannot incref it"
TryIncRefShared_Fails(shared) == shared = 0 \/ shared = Py_REF_MERGED

\* _Py_TryIncRefShared(op): one turn of the compare-and-exchange loop
TryIncRefShared_CAS(t) ==
    /\ FrameRace
    /\ g_loc[t].pc = "shared_cas"
    /\ IF TryIncRefShared_Fails(g_loc[t].shared)
          THEN /\ GetRef_Return(t, 0)
               /\ UNCHANGED ob_ref_shared
          ELSE /\ IF ob_ref_shared = g_loc[t].shared
                     THEN /\ ob_ref_shared' = ob_ref_shared + FlagRadix
                          /\ g_loc' = [g_loc EXCEPT ![t].pc = "compare"]
                     ELSE /\ g_loc' = [g_loc EXCEPT ![t].shared = ob_ref_shared]
                          /\ UNCHANGED ob_ref_shared
               /\ UNCHANGED <<g_view, held, n_acquire>>
    /\ UNCHANGED <<ob_tid, ob_ref_local, rpc, brc_queue, n_dealloc, n_release, g_gets>>
    /\ RaceListUnchanged /\ RaceDeallocUnchanged

\* _Py_TryIncref(src, op): "if (op != _Py_atomic_load_ptr(src)) { Py_DECREF(op);
\* return 0; }", src being &ref->wr_object
TryIncref_Compare(t) ==
    /\ FrameRace
    /\ g_loc[t].pc = "compare"
    /\ IF w_node[g_loc[t].n].alloc /\ w_node[g_loc[t].n].wr_object = "O"
          THEN /\ GetRef_Return(t, 1)
               /\ UNCHANGED <<rpc, n_release>>
          ELSE /\ g_loc' = [g_loc EXCEPT ![t].pc = "decref"]
               /\ rpc' = [rpc EXCEPT ![t].pc = "drs_load"]
               /\ n_release' = n_release + 1
               /\ UNCHANGED <<g_view, held, n_acquire>>
    /\ UNCHANGED <<ob_tid, ob_ref_local, ob_ref_shared, brc_queue, n_dealloc, g_gets>>
    /\ RaceListUnchanged /\ RaceDeallocUnchanged

\* _Py_TryIncref returns 0 once its Py_DECREF(op) is through
TryIncref_Undone(t) ==
    /\ FrameRace
    /\ g_loc[t].pc = "decref" /\ rpc[t].pc = "idle"
    /\ GetRef_Return(t, 0)
    /\ UNCHANGED <<ob_tid, ob_ref_local, ob_ref_shared, rpc, brc_queue, n_dealloc, n_release,
                   g_gets>>
    /\ RaceListUnchanged /\ RaceDeallocUnchanged

\* ---- the deallocator of O: PyObject_ClearWeakRefs(O), then the memory is freed ----

\* clear_weakref_lock_held(self, callback): unlink self, wr_object = Py_None;
\* the callback is taken out if take is set
clear_weakref_lock_held(st, self, take) ==
    LET nd == st.node[self]
        h == IF st.head = self THEN nd.wr_next ELSE st.head
        n1 == [st.node EXCEPT ![self].wr_object = "None"]
        n2 == IF nd.wr_prev # 0 THEN [n1 EXCEPT ![nd.wr_prev].wr_next = nd.wr_next] ELSE n1
        n3 == IF nd.wr_next # 0 THEN [n2 EXCEPT ![nd.wr_next].wr_prev = nd.wr_prev] ELSE n2
        s1 == IF nd.wr_object # "None"
                 THEN [head |-> h, node |-> [n3 EXCEPT ![self].wr_prev = 0, ![self].wr_next = 0]]
                 ELSE st
    IN IF take THEN [s1 EXCEPT !.node[self].wr_callback = FALSE] ELSE s1

\* PyObject_ClearWeakRefs: "if (_Py_atomic_load_ptr(list) == NULL) return;",
\* else the critical section on WEAKREF_LIST_LOCK(object) is entered
ClearWeakRefs_Enter ==
    /\ FrameRace
    /\ n_dealloc >= 1
    /\ g_dpc = "none"
    /\ g_dpc' = IF w_head = 0 THEN "done" ELSE "basic"
    /\ UNCHANGED <<g_mem, g_tuple>>
    /\ UNCHANGED refVars /\ RaceListUnchanged /\ RaceGetUnchanged

\* PyObject_ClearWeakRefs: "while (*list != NULL && (*list)->wr_callback == NULL)
\* clear_weakref(*list);", one turn; then _PyWeakref_GetWeakrefCount and
\* PyTuple_New in clear_weakrefs_and_invoke_callbacks_lock_held, tuple_ok
\* telling whether the tuple could be allocated
ClearWeakRefs_Basic_FT(tuple_ok) ==
    /\ FrameRace
    /\ g_dpc = "basic"
    /\ IF w_head # 0 /\ ~w_node[w_head].wr_callback
          THEN /\ SetWr(clear_weakref_lock_held(WrState, w_head, TRUE))
               /\ UNCHANGED g_dpc
          ELSE /\ g_dpc' = IF w_head = 0 \/ ~tuple_ok THEN "done" ELSE "collect"
               /\ UNCHANGED <<w_head, w_node>>
    /\ UNCHANGED <<g_mem, g_tuple>>
    /\ UNCHANGED refVars /\ RaceWrRest /\ RaceGetUnchanged

\* clear_weakrefs_and_invoke_callbacks_lock_held: "while (*list != NULL)", one
\* turn: the weak reference is cleared and, if it is alive, kept with its
\* callback; after the last one the callbacks are called
ClearWeakRefs_Collect ==
    /\ FrameRace
    /\ g_dpc = "collect"
    /\ IF w_head # 0
          THEN /\ SetWr(clear_weakref_lock_held(WrState, w_head, TRUE))
               /\ g_tuple' = IF w_node[w_head].refcnt > 0 THEN Append(g_tuple, w_head)
                             ELSE g_tuple
               /\ UNCHANGED g_dpc
          ELSE /\ g_dpc' = "done"
               /\ UNCHANGED <<w_head, w_node, g_tuple>>
    /\ UNCHANGED g_mem
    /\ UNCHANGED refVars /\ RaceWrRest /\ RaceGetUnchanged

\* the deallocator goes on and frees O
Race_tp_free ==
    /\ FrameRace
    /\ g_dpc = "done"
    /\ g_dpc' = "freed"
    /\ g_mem' = "freed"
    /\ UNCHANGED g_tuple
    /\ UNCHANGED refVars /\ RaceListUnchanged /\ RaceGetUnchanged

\* thread u allocates an object and gets the memory O had: new_reference
\* writes the header; the new object may be given a weak reference
Race_new_reference(u, maybe_weakref) ==
    /\ FrameRace
    /\ g_mem = "freed"
    /\ g_loc[u].pc = "idle" /\ rpc[u].pc = "idle"
    /\ g_mem' = "reused"
    /\ ob_tid' = u
    /\ ob_ref_local' = 1
    /\ ob_ref_shared' = IF maybe_weakref THEN Py_REF_MAYBE_WEAKREF ELSE 0
    /\ UNCHANGED <<rpc, held, brc_queue, n_dealloc, n_acquire, n_release>>
    /\ UNCHANGED <<g_dpc, g_tuple>>
    /\ RaceListUnchanged /\ RaceGetUnchanged

RaceNext ==
    \/ \E t \in Threads : Race_Py_DECREF(t)
    \/ \E t \in Threads : DecRefShared_Load(t)
    \/ \E t \in Threads : DecRefShared_CAS(t)
    \/ \E t \in Threads : DecRefShared_After(t)
    \/ \E t \in Threads : MergeZeroLocal_StoreTid(t)
    \/ \E t \in Threads : MergeZeroLocal_Load(t)
    \/ \E t \in Threads : MergeZeroLocal_CAS(t)
    \/ \E t \in Threads, n \in WrIds : GetRef_Load(t, n)
    \/ \E t \in Threads : TryIncrefFast(t)
    \/ \E t \in Threads : TryIncRefShared_CAS(t)
    \/ \E t \in Threads : TryIncref_Compare(t)
    \/ \E t \in Threads : TryIncref_Undone(t)
    \/ ClearWeakRefs_Enter
    \/ \E ok \in BOOLEAN : ClearWeakRefs_Basic_FT(ok)
    \/ ClearWeakRefs_Collect
    \/ Race_tp_free
    \/ \E u \in Threads, mw \in BOOLEAN : Race_new_reference(u, mw)

\* C13: PyWeakref_GetRef racing with PyObject_ClearWeakRefs of the referent
\* returns 1 only with a referent whose destruction has not begun (its
\* deallocator was not called and its memory is live), and otherwise 0.
C13_DerefNeverReturnsDestroyed ==
    \A t \in Threads :
        /\ g_view[t].ret \in {-1, 0, 1}
        /\ g_view[t].ret = 1 => g_view[t].mem = "live" /\ g_view[t].dealloc = 0

(***************************************************************************)
(* Weak references: the list, creation and the callbacks.                  *)
(***************************************************************************)
\* the nodes reached from head along wr_next, at most fuel of them
RECURSIVE WrListFrom(_, _, _)
WrListFrom(node, n, fuel) ==
    IF n = 0 \/ fuel = 0 THEN <<>>
    ELSE <<n>> \o WrListFrom(node, node[n].wr_next, fuel - 1)

\* O's weak list, head first
WrList == WrListFrom(w_node, w_head, MaxWeakrefs + 1)

\* the weak references whose referent pointer is O
WrPointingAtO == {n \in WrIds : w_node[n].alloc /\ w_node[n].wr_object = "O"}

\* a step in which a creation call allocates a weak reference and returns it
WrCreatesNode == w_ret' # 0 /\ ~w_node[w_ret'].alloc /\ w_node'[w_ret'].alloc

\* C14: during PyObject_ClearWeakRefs(O) no callback is invoked before every
\* weak reference of O is unlinked: while callbacks are being run and after
\* one has run, O's list is empty and no weak reference points at O.
C14_CallbacksAfterUnlink ==
    (w_pc = "callbacks" \/ w_called # <<>>) => w_head = 0 /\ WrPointingAtO = {}

\* two callbacks are about to run, and a third weak reference was unlinked
C14_Witness ==
    /\ w_pc = "callbacks"
    /\ Len(w_pending) = 2
    /\ w_called = <<>>
    /\ Cardinality({n \in WrIds : w_node[n].alloc}) = 3

\* C15: a callback that fails inside PyObject_ClearWeakRefs is reported with
\* PyErr_WriteUnraisable and not propagated: the callbacks of all weak
\* references kept in the tuple are called, in order, and on return the
\* pending exception is the one that was pending on entry.
C15_CallbackFailureContained ==
    /\ w_unraisable # <<>> /\ w_pc = "callbacks" => w_called \o w_pending = w_tuple
    /\ w_unraisable # <<>> /\ w_pc = "returned" => w_called = w_tuple /\ w_exc = w_saved
    /\ Range(w_unraisable) \subseteq Range(w_called)
    /\ w_exc # "CallbackError"

\* the first of two callbacks failed, the second was called all the same, and
\* the TypeError pending on entry is pending again
C15_Witness ==
    /\ w_pc = "returned"
    /\ Len(w_called) = 2
    /\ w_unraisable = <<w_called[1]>>
    /\ w_exc = "TypeError"

\* C16: O's weak list holds exactly the weak references whose referent
\* pointer is O, each once, and is a well-formed doubly linked list.
C16_WeakListExact ==
    /\ Len(WrList) <= MaxWeakrefs
    /\ NoDuplicates(WrList)
    /\ Range(WrList) = WrPointingAtO
    /\ w_head # 0 => w_node[w_head].wr_prev = 0
    /\ \A n \in Range(WrList) :
           w_node[n].wr_next # 0 => w_node[w_node[n].wr_next].wr_prev = n

\* a list of two after the middle one of three was cleared with
\* _PyWeakref_ClearRef
C16_Witness ==
    /\ w_pc = "run"
    /\ Len(WrList) = 2
    /\ \E n \in WrIds : /\ w_node[n].alloc /\ w_node[n].wr_object = "None"
                        /\ w_node[n].wr_callback
                        /\ w_node[WrList[1]].wr_next = WrList[2]
                        /\ WrList[1] < n /\ n < WrList[2]

\* C17: a creation call on an object whose type does not support weak
\* references returns NULL with TypeError and changes no weak list.
C17_UnsupportedTypeRejected ==
    [][\A cb \in BOOLEAN :
           (\/ PyWeakref_NewRef("U", cb)
            \/ PyWeakref_NewProxy("U", cb)
            \/ \E k \in {"ref", "sub"} : weakref___new__(k, "U", cb))
           => /\ w_ret' = 0
              /\ w_exc' = "TypeError"
              /\ UNCHANGED <<w_head, w_node>>]_vars

\* a call was rejected while O had weak references
C17_Witness ==
    /\ w_ret = 0
    /\ w_exc = "TypeError"
    /\ Len(WrList) >= 2

\* C18 as stated: a newly created weak reference, with or without a callback,
\* is the head of the list when the creation call returns.
C18_NewNodeAtHead == [][WrCreatesNode => w_head' = w_ret']_vars

\* C18 amended: a new callback-less reference of the exact type becomes the
\* head; any other new node becomes the head only if the list does not begin
\* with a callback-less basic reference or proxy, and is otherwise linked
\* right behind them (behind the proxy, or behind the reference if there is
\* no proxy), the head staying what it was.
C18_NewNodeBehindBasicRefs ==
    [][WrCreatesNode =>
          LET n == w_ret'
              b == get_basic_refs(WrState)
              prev == IF b.proxy # 0 THEN b.proxy ELSE b.ref
          IN IF (~w_node'[n].wr_callback /\ w_node'[n].kind = "ref") \/ prev = 0
                THEN w_head' = n /\ w_node'[n].wr_next = w_head
                ELSE /\ w_head' = w_head
                     /\ w_node'[n].wr_prev = prev
                     /\ w_node'[prev].wr_next = n
                     /\ w_node'[n].wr_next = w_node[prev].wr_next]_vars

\* a reference with a callback sits behind the basic reference and the proxy
C18_Witness ==
    /\ w_pc = "run"
    /\ Len(WrList) = 3
    /\ w_ret = WrList[3]
    /\ w_node[WrList[3]].wr_callback
    /\ w_node[WrList[1]].kind = "ref" /\ ~w_node[WrList[1]].wr_callback
    /\ w_node[WrList[2]].kind = "proxy" /\ ~w_node[WrList[2]].wr_callback

(***************************************************************************)
(* Thread states: ids and status flags.                                    *)
(***************************************************************************)
\* the thread state structs that are in use
TsInUse(ts) == {x \in TsIds : ts[x].alloc /\ ts[x].initialized}

\* a step in which new_threadstate initializes the struct x
TsCreated(x) == x \in TsInUse(p_ts') /\ x \notin TsInUse(p_ts)

\* a step that leaves the struct x in use, without freeing it
TsKept(x) == x \in TsInUse(p_ts) /\ x \in TsInUse(p_ts')

\* the status flags of x that are set never go back
TsFlagsStay(x) ==
    /\ p_ts[x].bound => p_ts'[x].bound
    /\ p_ts[x].unbound => p_ts'[x].unbound
    /\ p_ts[x].cleared => p_ts'[x].cleared
    /\ p_ts[x].finalized => p_ts'[x].finalized

\* C19: in each interpreter the ids new_threadstate hands out are unique and
\* strictly increasing from 1: a new thread state gets the interpreter's
\* counter plus one, which is larger than every id in use, the counter of a
\* new interpreter is 0 and the counter never goes down, so an id is not
\* handed out again after its thread state was deleted.
C19_ThreadIdsIncrease ==
    [][PsRunning' =>
          \A i \in InterpIds :
              /\ \A x \in TsIds :
                     TsCreated(x) /\ p_ts'[x].interp = i =>
                         /\ p_ts'[x].id = p_interp[i].next_unique_id + 1
                         /\ p_interp'[i].next_unique_id = p_ts'[x].id
                         /\ \A y \in TsInUse(p_ts) : p_ts[y].interp = i => p_ts[y].id < p_ts'[x].id
              /\ \A x, y \in TsInUse(p_ts') :
                     x # y /\ p_ts'[x].interp = i /\ p_ts'[y].interp = i => p_ts'[x].id # p_ts'[y].id
              /\ ~p_interp[i].alloc /\ p_interp'[i].alloc => p_interp'[i].next_unique_id = 0
              /\ p_interp[i].alloc /\ p_interp'[i].alloc =>
                     p_interp'[i].next_unique_id >= p_interp[i].next_unique_id]_vars

\* the main interpreter's third thread state exists while the second one is
\* gone, and a second interpreter has a thread state with id 1
C19_Witness ==
    /\ PsRunning
    /\ \E x \in TsInUse(p_ts) : p_ts[x].interp = MainInterpreter /\ p_ts[x].id = 3
    /\ \A x \in TsInUse(p_ts) : p_ts[x].interp = MainInterpreter => p_ts[x].id # 2
    /\ \E x \in TsInUse(p_ts) : p_ts[x].interp # MainInterpreter /\ p_ts[x].id = 1

TsNeverBound == {x \in TsInUse(p_ts) : ~p_ts[x].bound /\ ~p_ts[x].unbound /\ p_ts[x].thread_id = 0}

\* C21 as stated: PyThreadState_Clear on a thread state that was never bound
\* is a fatal error and clears nothing.
C21_ClearUnboundIsFatal ==
    [][\A c \in OsThreads, x \in TsIds :
          PyThreadState_Clear(c, x) /\ x \in TsNeverBound =>
              p_fail'.kind = "fatal" /\ p_ts' = p_ts]_vars

\* C21 amended: PyThreadState_Clear on a thread state that was never bound
\* returns normally: the process goes on, the state is marked cleared and is
\* otherwise as before (still unbound, still in its interpreter's list).
C21_ClearUnboundSucceeds ==
    [][\A c \in OsThreads, x \in TsIds :
          PyThreadState_Clear(c, x) /\ x \in TsNeverBound =>
              /\ PsRunning'
              /\ p_ts' = [p_ts EXCEPT ![x].cleared = TRUE]
              /\ p_interp' = p_interp /\ p_current' = p_current]_vars

\* a thread state that was cleared without ever being bound
C21_Witness ==
    /\ PsRunning
    /\ \E x \in TsNeverBound : p_ts[x].cleared /\ InSomeList(x)

\* the thread states in the list of interpreter i
TsListed(i) == Members(ThreadList(p_ts, p_interp[i].head))

\* C22 as stated: PyThreadState_Clear only ever runs on the thread state
\* that is the current one at that moment.
C22_ClearsOnlyCurrent ==
    \A r \in p_clears : r.ts = r.cur

\* C22 amended: PyGILState_Release clears the current thread state;
\* interpreter_clear clears every thread state of the interpreter and
\* _PyThreadState_DeleteExcept every thread state of the interpreter but the
\* one passed, whichever thread state is current, and without changing the
\* current thread state.
C22_ClearsCurrentOrStale ==
    [][PsRunning' =>
          /\ \A c \in OsThreads :
                 PyGILState_Release(c) => \A r \in p_clears' : r.ts = r.cur /\ r.ts = p_current
          /\ \A c \in OsThreads, i \in InterpIds :
                 PyInterpreterState_Clear(c, i) =>
                     /\ p_clears' = {[ts |-> x, cur |-> p_current] : x \in TsListed(i)}
                     /\ p_current' = p_current
          /\ \A c \in OsThreads, x \in TsIds :
                 PyThreadState_DeleteExcept(c, x) =>
                     /\ p_clears' = {[ts |-> y, cur |-> p_current] :
                                        y \in TsListed(p_ts[x].interp) \ {x}}
                     /\ p_current' = p_current]_vars

\* interpreter_clear has cleared the current thread state and another one
C22_Witness ==
    /\ PsRunning
    /\ \E r \in p_clears : r.ts = r.cur
    /\ \E r \in p_clears : r.ts # r.cur /\ r.cur # 0

\* C23: deleting an interpreter's _initial_thread does not free the struct
\* and resets it (its status flags are those of a struct never initialized),
\* and new_threadstate on an interpreter whose thread list is empty takes
\* the _initial_thread again and succeeds.
C23_InitialThreadReset ==
    [][/\ \A c \in OsThreads, x \in TsIds :
              /\ PyThreadState_Delete(c, x)
              /\ x = InitialThread(p_ts[x].interp)
              /\ PsRunning'
              => p_ts'[x] = [ZeroTs EXCEPT !.alloc = TRUE]
       /\ \A c \in OsThreads, i \in InterpIds :
              PyThreadState_New(c, i) /\ p_interp[i].head = 0 =>
                  /\ PsRunning'
                  /\ p_interp'[i].head = InitialThread(i)
                  /\ tstate_is_alive(p_ts'[InitialThread(i)])]_vars

(***************************************************************************)
(* The runtime's list of interpreters.                                     *)
(***************************************************************************)

InterpsListed == Members(InterpList(p_interp, p_ihead))

MainListed == p_main # 0 /\ p_main \in InterpsListed

\* C25 as stated: while the process runs, interpreters.main is set and the
\* main interpreter is in the runtime's list.
C25_MainNeverDeleted == PsRunning => MainListed

\* C25: PyInterpreterState_New, _PyInterpreterState_DeleteExceptMain and
\* PyInterpreterState_Delete of another interpreter leave interpreters.main as
\* it is and the main interpreter in the list; PyInterpreterState_Delete of the
\* main interpreter takes it out of the list and sets interpreters.main to
\* NULL, and the process goes on only if the list is then empty. (A debug
\* build dies in _PyInterpreterState_DeleteExceptMain, the list taken apart,
\* when there is another interpreter to clear.)
C25_MainGoesOnlyByItsDelete ==
    [][\A c \in OsThreads :
         /\ \A audit_ok, lock_ok, alloc_ok \in BOOLEAN :
                PyInterpreterState_New_Try(c, audit_ok, lock_ok, alloc_ok) /\ MainListed
                => p_main' = p_main /\ MainListed'
         /\ PyInterpreterState_DeleteExceptMain(c) /\ MainListed
                => p_main' = p_main /\ (PsRunning' => MainListed')
         /\ \A i \in InterpIds :
                /\ PyInterpreterState_Delete(c, i) /\ MainListed /\ i # p_main
                       => p_main' = p_main /\ MainListed'
                /\ PyInterpreterState_Delete(c, i) /\ i = p_main /\ ~(p_fail'.kind = "assert")
                       => /\ p_main' = 0
                          /\ MainInterpreter \notin InterpsListed'
                          /\ PsRunning' <=> p_ihead' = 0]_vars

\* the main interpreter was deleted, after another interpreter had been
\* created and deleted, and the process runs
C25_Witness ==
    /\ PsRunning
    /\ p_main = 0 /\ p_ihead = 0
    /\ Len(p_ids) >= 2

\* the call is refused the lock or the memory, or takes an id that overflowed
NewFails(audit_ok, lock_ok, alloc_ok) ==
    \/ ~audit_ok
    \/ ~lock_ok
    \/ p_ihead # 0 /\ (~alloc_ok \/ p_next_id < 0)

InterpListUnchanged == UNCHANGED <<p_interp, p_ihead, p_main, p_ts, p_ids>>

\* C26 as stated: a PyInterpreterState_New that fails returns NULL and leaves
\* the list, interpreters.main and interpreters.next_id as they were.
C26_FailedNewLeavesNothing ==
    [][\A c \in OsThreads, audit_ok, lock_ok, alloc_ok \in BOOLEAN :
         PyInterpreterState_New_Try(c, audit_ok, lock_ok, alloc_ok)
         /\ NewFails(audit_ok, lock_ok, alloc_ok)
         => /\ InterpreterState_New_With(PsWorld, audit_ok, lock_ok, alloc_ok).ret = 0
            /\ InterpListUnchanged
            /\ p_next_id' = p_next_id]_vars

\* C26: a PyInterpreterState_New that fails returns NULL and leaves the list
\* and interpreters.main as they were; interpreters.next_id is as it was when
\* no lock could be allocated, and one further (on the int64_t) when the
\* memory of the interpreter could not be allocated or the id had overflowed.
C26_FailedNewKeepsListNotCounter ==
    [][\A c \in OsThreads, audit_ok, lock_ok, alloc_ok \in BOOLEAN :
         PyInterpreterState_New_Try(c, audit_ok, lock_ok, alloc_ok)
         /\ NewFails(audit_ok, lock_ok, alloc_ok)
         => /\ InterpreterState_New_With(PsWorld, audit_ok, lock_ok, alloc_ok).ret = 0
            /\ PsRunning'
            /\ InterpListUnchanged
            /\ p_next_id' = IF ~audit_ok \/ ~lock_ok THEN p_next_id
                            ELSE IF p_next_id = INT64_MAX THEN INT64_MIN
                            ELSE p_next_id + 1]_vars

\* a call failed on an id that had overflowed, after a call refused its memory
\* had used an id up
C26_Witness ==
    /\ PsRunning
    /\ p_next_id = INT64_MIN + 1
    /\ Len(p_ids) <= INT64_MAX

\* the current thread state swapped, and thread states and interpreters deleted
SwapNext ==
    \/ \E c \in OsThreads, x \in TsIds : PyThreadState_Swap(c, x)
    \/ \E c \in OsThreads : PyEval_SaveThread(c)
    \/ \E c \in OsThreads, x \in TsIds : PyEval_RestoreThread(c, x)
    \/ \E c \in OsThreads, i \in InterpIds : PyThreadState_New(c, i)
    \/ \E c \in OsThreads, x \in TsIds : PyThreadState_Clear(c, x)
    \/ \E c \in OsThreads, x \in TsIds : PyThreadState_Delete(c, x)
    \/ \E c \in OsThreads : PyThreadState_DeleteCurrent(c)
    \/ \E c \in OsThreads, i \in InterpIds : PyInterpreterState_Delete(c, i)

\* the thread states that exist: created and not deleted
TsLive == {x \in TsIds : p_ts[x].alloc /\ p_ts[x].initialized /\ ~p_ts[x].finalized}

C28_ReleaseSwapsBack ==
    [][Xid_Release(1) /\ PsRunning' => p_current' = p_current]_vars

\* a release that ran under another thread state than the caller's has
\* returned
C28_Witness ==
    /\ PsRunning
    /\ x_pc = "released"
    /\ p_current # 0
    /\ x_ran.n >= 1 /\ x_ran.cur # p_current

XidUnregistered(v) == CrossInterpreterData_Lookup(v.type) = ""

XidGetOn(v) ==
    \/ Xid_GetCrossInterpreterData(1, v, TRUE)
    \/ Xid_GetCrossInterpreterData_Again(1, v)

\* -1, ValueError pending, the payload reset, the caller's reference the only one
XidRefused ==
    /\ PsRunning'
    /\ x_ret' = -1
    /\ x_err' = "ValueError: does not support cross-interpreter data"
    /\ x_data' = [ZeroData EXCEPT !.interp = -1]
    /\ x_obj'.refcnt = 1

DATA_STACK_CHUNK_WORDS == 8  \* DATA_STACK_CHUNK_SIZE / sizeof(PyObject *), scaled down
MINIMUM_OVERHEAD == 4        \* scaled down
MaxFrameSize == 5            \* largest frame pushed
MaxDepth == 5                \* frames pushed and not popped
MaxChunks == 4               \* chunks allocated at once

ChunkHeader == 3             \* offsetof(_PyStackChunk, data): previous, size, top
ChunkIds == 1..MaxChunks
NoChunk == [alloc |-> FALSE, previous |-> 0, size |-> 0, top |-> 0]
NullPtr == [chunk |-> 0, off |-> 0]
DsRunning == d_fail.kind = "none"

\* init_threadstate: datastack_chunk, datastack_top and datastack_limit NULL
DsInit ==
    /\ d_debug \in BOOLEAN
    /\ d_fail = Running
    /\ d_chunks = [k \in ChunkIds |-> NoChunk]
    /\ d_chunk = 0
    /\ d_top = NullPtr
    /\ d_limit = NullPtr
    /\ d_frames = <<>>
    /\ d_root = 0
    /\ d_ret = NullPtr
    /\ d_saved = <<>>

DsIdle ==
    /\ d_debug = FALSE
    /\ d_fail = Running
    /\ d_chunks = <<>>
    /\ d_chunk = 0
    /\ d_top = NullPtr
    /\ d_limit = NullPtr
    /\ d_frames = <<>>
    /\ d_root = 0
    /\ d_ret = NullPtr
    /\ d_saved = <<>>

\* The memory a data stack routine works on
DsWorld == [debug |-> d_debug, fail |-> d_fail, chunks |-> d_chunks, chunk |-> d_chunk,
            top |-> d_top, limit |-> d_limit, root |-> d_root, ret |-> NullPtr]

SetDs(st) ==
    \E s \in {st} :
        /\ d_fail' = s.fail
        /\ d_chunks' = s.chunks
        /\ d_chunk' = s.chunk
        /\ d_top' = s.top
        /\ d_limit' = s.limit
        /\ d_root' = s.root
        /\ d_ret' = s.ret
        /\ UNCHANGED d_debug

\* _PyThreadState_HasStackSpace (pycore_frame.h): datastack_top != NULL &&
\* size < datastack_limit - datastack_top
ThreadState_HasStackSpace(st, size) ==
    st.top # NullPtr /\ size < st.limit.off - st.top.off

\* push_chunk: the allocation is doubled while it is smaller than size +
\* MINIMUM_OVERHEAD pointers
RECURSIVE allocate_size(_, _)
allocate_size(size, words) ==
    IF words < size + MINIMUM_OVERHEAD THEN allocate_size(size, words * 2) ELSE words

\* _PyObject_VirtualAlloc: the lowest free address
FreshChunk(st) == CHOOSE k \in ChunkIds : /\ ~st.chunks[k].alloc
                                          /\ \A j \in ChunkIds : ~st.chunks[j].alloc => k <= j

\* (variant: the first frame of the root chunk is put at data[0])
push_chunk_skip_None(previous) == 0

\* push_chunk: "&new->data[new->previous == NULL]"
push_chunk_skip(previous) == IF previous = 0 THEN 1 ELSE 0

\* (variant: the top of the chunk left behind is not written down)
push_chunk_top_Unsaved(st, previous) == st.chunks[previous].top

\* push_chunk: tstate->datastack_top - &tstate->datastack_chunk->data[0]
push_chunk_top(st, previous) == st.top.off

\* push_chunk(tstate, size); alloc_ok: _PyObject_VirtualAlloc returns memory
push_chunk(st, size, alloc_ok) ==
    LET words == allocate_size(size, DATA_STACK_CHUNK_WORDS)
        new == FreshChunk(st)
        previous == st.chunk
        s1 == [st EXCEPT !.chunks[new] = [alloc |-> TRUE, previous |-> previous,
                                          size |-> words, top |-> 0]]
        s2 == IF previous # 0
                 THEN [s1 EXCEPT !.chunks[previous].top = push_chunk_top(st, previous)]
                 ELSE s1
        res == [chunk |-> new, off |-> push_chunk_skip(previous)]
    IN IF Failed(st) THEN st
       ELSE IF ~alloc_ok THEN [st EXCEPT !.ret = NullPtr]
       ELSE [s2 EXCEPT !.chunk = new,
                       !.limit = [chunk |-> new, off |-> words - ChunkHeader],
                       !.top = [chunk |-> new, off |-> res.off + size],
                       !.root = IF previous = 0 /\ @ = 0 THEN new ELSE @,
                       !.ret = res]

\* _PyThreadState_PushFrame(tstate, size)
ThreadState_PushFrame(st, size, alloc_ok) ==
    IF Failed(st) THEN st
    ELSE IF st.top # NullPtr /\ st.top.chunk # st.limit.chunk
       THEN Undefined(st, "datastack_limit - datastack_top across two chunks")
    ELSE IF ThreadState_HasStackSpace(st, size)
       THEN [st EXCEPT !.ret = st.top, !.top.off = @ + size]
    ELSE push_chunk(st, size, alloc_ok)

\* _PyThreadState_PopFrame(tstate, frame)
ThreadState_PopFrame(st, base) ==
    LET s1 == Expect(st, st.chunk # 0, "assert(tstate->datastack_chunk)")
        chunk == st.chunk
        previous == st.chunks[chunk].previous
        s2 == Expect(s1, previous # 0, "assert(previous)")
        s3 == Expect(s1, st.top # NullPtr, "assert(tstate->datastack_top)")
        s4 == Expect(s3, st.top.chunk = base.chunk /\ st.top.off >= base.off,
                     "assert(tstate->datastack_top >= base)")
    IN IF Failed(s1) THEN s1
       ELSE IF st.chunk = 0 THEN Undefined(s1, "tstate->datastack_chunk->data with no chunk")
       ELSE IF base = [chunk |-> chunk, off |-> 0]
          THEN IF Failed(s2) THEN s2
               ELSE IF previous = 0 THEN Undefined(s2, "previous->top with previous == NULL")
               ELSE [s2 EXCEPT !.top = [chunk |-> previous, off |-> st.chunks[previous].top],
                               !.chunk = previous,
                               !.chunks[chunk] = NoChunk,
                               !.limit = [chunk |-> previous,
                                          off |-> st.chunks[previous].size - ChunkHeader]]
       ELSE Then(s4, [s4 EXCEPT !.top = base])

\* ---- the calls a program makes ----

\* tstate->datastack_chunk, datastack_top, datastack_limit
DsPointers == [chunk |-> d_chunk, top |-> d_top, limit |-> d_limit]

\* _PyThreadState_PushFrame(tstate, size); the caller keeps the frame it gets
DsPushFrame(size, alloc_ok) ==
    /\ FrameDs
    /\ DsRunning
    /\ Len(d_frames) < MaxDepth
    /\ \E k \in ChunkIds : ~d_chunks[k].alloc
    /\ \E s \in {ThreadState_PushFrame(DsWorld, size, alloc_ok)} :
          /\ SetDs(s)
          /\ d_frames' = IF Failed(s) \/ s.ret = NullPtr THEN d_frames
                         ELSE Append(d_frames, s.ret)
          /\ d_saved' = IF Failed(s) \/ s.ret = NullPtr THEN d_saved
                        ELSE Append(d_saved, DsPointers)

\* _PyThreadState_PopFrame(tstate, frame) with the frame pushed last
DsPopFrame ==
    /\ FrameDs
    /\ DsRunning
    /\ d_frames # <<>>
    /\ SetDs(ThreadState_PopFrame(DsWorld, d_frames[Len(d_frames)]))
    /\ d_frames' = SubSeq(d_frames, 1, Len(d_frames) - 1)
    /\ d_saved' = SubSeq(d_saved, 1, Len(d_saved) - 1)

DsNext ==
    \/ \E size \in 1..MaxFrameSize, alloc_ok \in BOOLEAN : DsPushFrame(size, alloc_ok)
    \/ DsPopFrame

\* ---- claims ----

RECURSIVE ChunkChainFrom(_, _)
ChunkChainFrom(k, fuel) ==
    IF k = 0 \/ fuel = 0 THEN <<>>
    ELSE <<k>> \o ChunkChainFrom(d_chunks[k].previous, fuel - 1)

\* tstate->datastack_chunk followed through ->previous
ChunkChain == ChunkChainFrom(d_chunk, MaxChunks + 1)

\* C30: under pushes and pops in LIFO order no call fails an assertion or reads
\* through NULL, and once the root chunk is allocated it stays allocated,
\* tstate->datastack_chunk is not NULL, and the chunks reached from it through
\* ->previous are allocated and end with the root chunk.
C30_RootChunkStays ==
    /\ DsRunning
    /\ d_root # 0 =>
           /\ d_chunks[d_root].alloc
           /\ d_chunk # 0
           /\ ChunkChain # <<>>
           /\ ChunkChain[Len(ChunkChain)] = d_root
           /\ d_chunks[d_root].previous = 0
           /\ \A n \in 1..Len(ChunkChain) : d_chunks[ChunkChain[n]].alloc

\* every frame has been popped, the root chunk is the current one, and a
\* second chunk had been pushed on it (which wrote the root chunk's top)
C30_Witness ==
    /\ d_root # 0
    /\ d_frames = <<>>
    /\ d_chunk = d_root
    /\ d_chunks[d_root].top > 0
    /\ \A k \in ChunkIds \ {d_root} : ~d_chunks[k].alloc

(***************************************************************************)
(* Split counter: what a release from a non-owning thread writes.          *)
(***************************************************************************)
\* thread t is inside _Py_DecRefShared and takes this step
DecRefShared_Step(t) ==
    /\ At(t, "drs_load") \/ At(t, "drs_cas") \/ At(t, "drs_after")
    /\ rpc'[t] # rpc[t]

\* C31: no step of _Py_DecRefShared writes ob_ref_local or ob_tid; ob_ref_shared
\* changes only in the compare-and-swap that succeeds, which ends the loop; it
\* stores QUEUED, without subtracting, exactly when the field held 0 or
\* MAYBE_WEAKREF and else the field minus one reference; the object is put on
\* the owner's queue, once, exactly in the first case.
C31_DecRefSharedWritesOnlyShared ==
    [][\A t \in Threads : DecRefShared_Step(t) =>
          /\ ob_ref_local' = ob_ref_local
          /\ ob_tid' = ob_tid
          /\ ob_ref_shared' # ob_ref_shared =>
                /\ At(t, "drs_cas")
                /\ rpc[t].shared = ob_ref_shared
                /\ rpc'[t].pc = "drs_after"
                /\ IF ob_ref_shared \in {0, Py_REF_MAYBE_WEAKREF}
                      THEN ob_ref_shared' = Py_REF_QUEUED /\ rpc'[t].queue
                      ELSE /\ ob_ref_shared' = ob_ref_shared - FlagRadix
                           /\ ~rpc'[t].queue
          /\ At(t, "drs_cas") /\ rpc'[t].pc = "drs_after" =>
                /\ rpc[t].shared = ob_ref_shared
                /\ ob_ref_shared' # ob_ref_shared
          /\ brc_queue' = IF At(t, "drs_after") /\ rpc[t].queue
                             THEN brc_queue + 1 ELSE brc_queue]_vars

\* a thread that does not own the object has stored QUEUED over a zero count
\* while the owner still holds references through the local counter
C31_Witness ==
    \E t \in Threads :
        /\ t # ob_tid
        /\ At(t, "drs_after")
        /\ rpc[t].queue
        /\ ob_ref_shared = Py_REF_QUEUED
        /\ ob_ref_local >= 1

(***************************************************************************)
(* Trashcan: the drain loop and the deallocators it calls.                 *)
(***************************************************************************)
\* the calls of _PyTrash_thread_destroy_chain in progress on the native stack
DrainFrames == {i \in 1..Len(t_stack) : t_stack[i].pc = "drain"}

\* C32: at most one _PyTrash_thread_destroy_chain is in progress on the
\* thread; no assertion of the trashcan fails; a call of it begins, from
\* _PyTrash_end, with delete_nesting == 0 and with no other call of it in
\* progress; and a deallocator that finds the nesting at the threshold while
\* the drain runs puts its object on delete_later instead of running.
C32_DrainNotReentered ==
    [][/\ Cardinality(DrainFrames') <= 1
       /\ t_failed' = ""
       /\ DrainFrames' # DrainFrames /\ DrainFrames' # {} =>
             /\ Top.pc = "end"
             /\ t_nesting - 1 = 0
             /\ DrainFrames = {}
       /\ (Draining /\ Len(t_stack) > 1 /\ Top.pc = "begin"
             /\ t_nesting >= PyTrash_UNWIND_LEVEL) =>
             /\ t_later' = <<Top.op>> \o t_later
             /\ t_nesting' = t_nesting
             /\ DrainFrames' = DrainFrames]_vars

\* the drain is running, it has called deallocators, and an object it reached
\* through them at the threshold is on delete_later again
C32_Witness ==
    /\ Draining
    /\ t_failed = ""
    /\ Len(t_drained) >= 1
    /\ Len(t_deposited) > Len(t_drained)
    /\ t_later # <<>>
    /\ Head(t_later) = t_deposited[Len(t_deposited)]
    /\ Len(t_deposited) >= 2
    /\ t_deposited[Len(t_deposited)][1] = t_drained[Len(t_drained)][1]
    /\ t_deposited[Len(t_deposited)][2] > t_drained[Len(t_drained)][2]

(***************************************************************************)
(* Weak references: the callback-less references at the front of the list. *)
(***************************************************************************)
\* positions in O's list of the callback-less weak references of this kind
BasicAt(kind) ==
    {i \in 1..Len(WrList) : w_node[WrList[i]].kind = kind /\ ~w_node[WrList[i]].wr_callback}

DsPopped == Len(d_frames') < Len(d_frames) /\ d_fail'.kind = "none"

\* C35: when the frame pushed last is popped, datastack_chunk, datastack_top
\* and datastack_limit are again what they were when its push was called, if
\* the root chunk existed then; frames pushed in between have been popped in
\* the same way.
C35_PushPopRestores ==
    [][DsPopped /\ d_saved[Len(d_saved)].chunk # 0 =>
           /\ d_chunk' = d_saved[Len(d_saved)].chunk
           /\ d_top' = d_saved[Len(d_saved)].top
           /\ d_limit' = d_saved[Len(d_saved)].limit]_vars

\* a frame for which push_chunk had allocated a second chunk has been popped:
\* that chunk is freed again, the root chunk is the current one with the top
\* push_chunk wrote into it, and the frames pushed before are still there
C35_Witness ==
    /\ DsRunning
    /\ d_root # 0
    /\ d_chunk = d_root
    /\ \A k \in ChunkIds \ {d_root} : ~d_chunks[k].alloc
    /\ d_chunks[d_root].top > 1
    /\ d_top = [chunk |-> d_root, off |-> d_chunks[d_root].top]
    /\ d_limit = [chunk |-> d_root, off |-> d_chunks[d_root].size - ChunkHeader]
    /\ d_frames # <<>>
    /\ d_ret = NullPtr

(***************************************************************************)
(* push_chunk: the size of the chunk allocated for a frame, pystate.c.     *)
(* allocate_size and its operands are ints; a signed operation whose       *)
(* result does not fit is undefined: the build traps, or goes on with the  *)
(* result reduced to the width of int.                                     *)
(***************************************************************************)
IntBits == 12                \* width of int, scaled down
SizeofPtr == 8               \* sizeof(PyObject*)

INT_MAX == 2 ^ (IntBits - 1) - 1
INT_MIN == -INT_MAX - 1
DATA_STACK_CHUNK_SIZE == DATA_STACK_CHUNK_WORDS * SizeofPtr

\* the sizes _PyThreadState_PushFrame accepts: assert(size < INT_MAX/sizeof(PyObject *))
PushFrameSizes == {size \in 0..INT_MAX : size < INT_MAX \div SizeofPtr}

SzInit ==
    /\ k_size \in PushFrameSizes
    /\ k_alloc = DATA_STACK_CHUNK_SIZE
    /\ k_pc = "test"
    /\ k_ub = FALSE

SzIdle ==
    /\ k_size = 0
    /\ k_alloc = 0
    /\ k_pc = "idle"
    /\ k_ub = FALSE

IntFits(v) == INT_MIN <= v /\ v <= INT_MAX

\* what a signed int operation with the exact result v leaves
IntResult(v) ==
    IF IntFits(v) THEN {[trap |-> FALSE, val |-> v]}
    ELSE {[trap |-> TRUE, val |-> 0],
          [trap |-> FALSE, val |-> ((v - INT_MIN) % (2 ^ IntBits)) + INT_MIN]}

\* push_chunk: (int)sizeof(PyObject*)*(size + MINIMUM_OVERHEAD)
push_chunk_needed(size) == SizeofPtr * (size + MINIMUM_OVERHEAD)

\* push_chunk: "while (allocate_size < (int)sizeof(PyObject*)*(size + MINIMUM_OVERHEAD))"
push_chunk_test ==
    /\ FrameSz
    /\ k_pc = "test"
    /\ \E r \in IntResult(push_chunk_needed(k_size)) :
          /\ k_ub' = (k_ub \/ ~IntFits(push_chunk_needed(k_size)))
          /\ k_pc' = IF r.trap THEN "trap"
                     ELSE IF k_alloc < r.val THEN "double" ELSE "done"
    /\ UNCHANGED <<k_size, k_alloc>>

\* push_chunk: "allocate_size *= 2"
push_chunk_double ==
    /\ FrameSz
    /\ k_pc = "double"
    /\ \E r \in IntResult(k_alloc * 2) :
          /\ k_ub' = (k_ub \/ ~IntFits(k_alloc * 2))
          /\ k_alloc' = IF r.trap THEN k_alloc ELSE r.val
          /\ k_pc' = IF r.trap THEN "trap" ELSE "test"
    /\ UNCHANGED k_size

SzNext ==
    \/ push_chunk_test
    \/ push_chunk_double

\* C36: for every size the precondition accepts no int operation of the loop
\* overflows, and past the loop allocate_size is DATA_STACK_CHUNK_SIZE times a
\* power of two and at least sizeof(PyObject*) * (size + MINIMUM_OVERHEAD).
C36_ChunkSizeFitsFrame ==
    /\ ~k_ub
    /\ k_pc # "trap"
    /\ k_pc = "done" =>
          /\ \E n \in 0..IntBits : k_alloc = DATA_STACK_CHUNK_SIZE * 2 ^ n
          /\ k_alloc >= push_chunk_needed(k_size)

(***************************************************************************)
(* Thread states: the one bound to the PyGILState machinery of a thread.   *)
(***************************************************************************)
\* the thread states of OS thread c with _status.bound_gilstate set
GilstateBound(c) ==
    {x \in TsIds : p_ts[x].alloc /\ p_ts[x].thread_id = c /\ p_ts[x].bound_gilstate}

\* C37: while the process runs, the thread states of an OS thread that have
\* _status.bound_gilstate set are exactly the one stored in the thread's
\* autoTSSkey slot, none if the slot is empty.
C37_GilstateBoundIsSlot ==
    PsRunning =>
        \A c \in OsThreads :
            GilstateBound(c) = IF p_tss[c] = 0 THEN {} ELSE {p_tss[c]}

(***************************************************************************)
(* Weak references: the order in which the callbacks are called.           *)
(***************************************************************************)
\* the place of weak reference n among those created with a callback
BornAt(n) == CHOOSE k \in 1..Len(w_born) : w_born[k] = n

\* is seq in the reverse of the order of creation?
NewestFirst(seq) ==
    \A i, j \in 1..Len(seq) :
        (i < j /\ seq[i] \in Range(w_born) /\ seq[j] \in Range(w_born))
            => BornAt(seq[i]) > BornAt(seq[j])

\* C38: the weak references whose callbacks PyObject_ClearWeakRefs keeps are
\* those of O's list that have a callback, in the reverse of the order they
\* were created in, and their callbacks are called in that order.
C38_CallbacksNewestFirst ==
    /\ NewestFirst(w_called)
    /\ w_pc = "callbacks" =>
          /\ NewestFirst(w_tuple)
          /\ w_called \o w_pending = w_tuple
          /\ Range(w_tuple) \subseteq Range(w_born)
    /\ w_pc = "run" =>
          LET withcb == SelectSeq(WrList, LAMBDA n : w_node[n].wr_callback)
          IN NewestFirst(withcb) /\ Range(withcb) \subseteq Range(w_born)

\* PyObject_ClearWeakRefs has returned after it called two callbacks, that of
\* the weak reference created last first; a callback-less reference had been
\* at the head of the list
C38_Witness ==
    /\ w_pc = "returned"
    /\ Len(w_called) = 2
    /\ w_born = <<w_called[2], w_called[1]>>
    /\ w_called[1] > w_called[2]
    /\ \E n \in WrIds : w_node[n].alloc /\ w_node[n].kind = "ref" /\ n \notin Range(w_born)

(***************************************************************************)
(* The registry of {type -> crossinterpdatafunc}, pystate.c.               *)
(***************************************************************************)
MaxRegItems == 5    \* entries the registry may hold before a further registration

BuiltinTypes == {"NoneType", "int", "bytes", "str"}
HeapTypes == {"A"}
RegTypes == BuiltinTypes \cup HeapTypes
RegFuncs == {"f1", "f2"}     \* the getdata functions callers register
RegCallerTypes == {"int"} \cup HeapTypes    \* the classes callers register
NoLookup == [cls |-> "", getdata |-> ""]

RegInit ==
    /\ q_head = <<>>
    /\ q_live = HeapTypes
    /\ q_unreg = {}
    /\ q_last = NoLookup

RegIdle ==
    /\ q_head = <<>>
    /\ q_live = {}
    /\ q_unreg = {}
    /\ q_last = NoLookup

\* _xidregistry_add_type: the new entry becomes the head, whatever the list
\* holds; ok = FALSE: PyMem_RawMalloc or PyWeakref_NewRef failed
xidregistry_add_type(head, cls, getdata, ok) ==
    IF ok THEN <<[cls |-> cls, getdata |-> getdata]>> \o head ELSE head

\* _xidregistry_remove_entry: unlinks the entry at position entry
xidregistry_remove_entry(head, entry) ==
    SubSeq(head, 1, entry - 1) \o SubSeq(head, entry + 1, Len(head))

\* _xidregistry_find_type from position cur on: entries whose class was freed
\* (PyWeakref_GetObject gives None) are removed on the way; matched is the
\* position of the first entry of cls, 0 for NULL
RECURSIVE xidregistry_find_type(_, _, _, _)
xidregistry_find_type(head, live, cls, cur) ==
    IF cur > Len(head) THEN [head |-> head, matched |-> 0]
    ELSE IF head[cur].cls \notin live
         THEN xidregistry_find_type(xidregistry_remove_entry(head, cur), live, cls, cur)
    ELSE IF head[cur].cls = cls THEN [head |-> head, matched |-> cur]
    ELSE xidregistry_find_type(head, live, cls, cur + 1)

\* _register_builtins_for_crossinterpreter_data (a failed registration is a
\* fatal error)
register_builtins_for_crossinterpreter_data(head) ==
    LET none(h) == xidregistry_add_type(h, "NoneType", "_none_shared", TRUE)
        int(h) == xidregistry_add_type(h, "int", "_long_shared", TRUE)
        bytes(h) == xidregistry_add_type(h, "bytes", "_bytes_shared", TRUE)
        str(h) == xidregistry_add_type(h, "str", "_str_shared", TRUE)
    IN str(bytes(int(none(head))))

\* "if (xidregistry->head == NULL) _register_builtins_for_crossinterpreter_data"
RegEnsured(head) ==
    IF head = <<>> THEN register_builtins_for_crossinterpreter_data(head) ELSE head

RegLive == BuiltinTypes \cup q_live

\* _PyCrossInterpreterData_RegisterClass(cls, getdata); getdata = "" is NULL
CrossInterpreterData_RegisterClass(cls, getdata, ok) ==
    /\ FrameReg
    /\ cls \in RegLive
    /\ Len(q_head) < MaxRegItems
    /\ IF getdata = ""
       THEN UNCHANGED <<q_head, q_unreg>>
       ELSE /\ q_head' = xidregistry_add_type(RegEnsured(q_head), cls, getdata, ok)
            /\ q_unreg' = IF ok THEN q_unreg \ {cls} ELSE q_unreg
    /\ q_last' = NoLookup
    /\ UNCHANGED q_live

\* _PyCrossInterpreterData_UnregisterClass(cls)
CrossInterpreterData_UnregisterClass(cls) ==
    /\ FrameReg
    /\ cls \in RegLive
    /\ \E f \in {xidregistry_find_type(q_head, RegLive, cls, 1)} :
          q_head' = IF f.matched # 0
                    THEN xidregistry_remove_entry(f.head, f.matched)
                    ELSE f.head
    /\ q_unreg' = q_unreg \cup {cls}
    /\ q_last' = NoLookup
    /\ UNCHANGED q_live

\* _PyCrossInterpreterData_Lookup(obj), cls = PyObject_Type(obj)
PyCrossInterpreterData_Lookup(cls) ==
    /\ FrameReg
    /\ cls \in RegLive
    /\ \E f \in {xidregistry_find_type(RegEnsured(q_head), RegLive, cls, 1)} :
          /\ q_head' = f.head
          /\ q_last' = [cls |-> cls,
                        getdata |-> IF f.matched # 0 THEN f.head[f.matched].getdata ELSE ""]
    /\ UNCHANGED <<q_live, q_unreg>>

\* the last reference to a heap type goes away: the weak references of its
\* entries are cleared, PyWeakref_GetObject gives None from now on
RegTypeFreed(cls) ==
    /\ FrameReg
    /\ cls \in q_live
    /\ q_live' = q_live \ {cls}
    /\ q_last' = NoLookup
    /\ UNCHANGED <<q_head, q_unreg>>

RegNext ==
    \/ \E cls \in RegCallerTypes, getdata \in RegFuncs \cup {""}, ok \in BOOLEAN :
          CrossInterpreterData_RegisterClass(cls, getdata, ok)
    \/ \E cls \in RegTypes : CrossInterpreterData_UnregisterClass(cls)
    \/ \E cls \in RegTypes : PyCrossInterpreterData_Lookup(cls)
    \/ \E cls \in HeapTypes : RegTypeFreed(cls)

\* C39: a lookup for instances of a class that was unregistered, and not
\* registered since, finds no snapshot function.
C39_UnregisteredNotFound ==
    q_last.cls \in q_unreg => q_last.getdata = ""

(***************************************************************************)
(* Cells: PyCell_SwapTakeRef, PyCell_SetTakeRef and PyCell_GetRef called   *)
(* on one cell by several threads, pycore_cell.h.  The lock stands for the *)
(* critical section of the cell; in the build with the GIL the macros are  *)
(* braces and the GIL, held across the body, excludes the other threads.   *)
(***************************************************************************)
NCellThreads == 2   \* threads calling on the cell
NCellObjs == 2      \* objects the threads store
MaxCellGets == 2    \* calls of PyCell_GetRef

CellThreads == 1..NCellThreads
CellObjs == 1..NCellObjs

CellInit ==
    /\ c_ob_ref = 0
    /\ c_mutex = 0
    /\ c_refcnt = [o \in CellObjs |-> NCellThreads]
    /\ c_freed = [o \in CellObjs |-> FALSE]
    /\ c_own = [t \in CellThreads |-> [o \in CellObjs |-> 1]]
    /\ c_pc = [t \in CellThreads |-> "idle"]
    /\ c_op = [t \in CellThreads |-> ""]
    /\ c_val = [t \in CellThreads |-> 0]
    /\ c_loc = [t \in CellThreads |-> 0]
    /\ c_uaf = FALSE
    /\ c_gets = 0

CellIdle ==
    /\ c_ob_ref = 0
    /\ c_mutex = 0
    /\ c_refcnt = <<>>
    /\ c_freed = <<>>
    /\ c_own = <<>>
    /\ c_pc = <<>>
    /\ c_op = <<>>
    /\ c_val = <<>>
    /\ c_loc = <<>>
    /\ c_uaf = FALSE
    /\ c_gets = 0

CellAt(t, op, pc) == c_op[t] = op /\ c_pc[t] = pc
CellGoto(t, pc) == c_pc' = [c_pc EXCEPT ![t] = pc]
CellReturn(t) ==
    /\ c_pc' = [c_pc EXCEPT ![t] = "idle"]
    /\ c_op' = [c_op EXCEPT ![t] = ""]
    /\ c_val' = [c_val EXCEPT ![t] = 0]
    /\ c_loc' = [c_loc EXCEPT ![t] = 0]

CriticalSectionCanLock_Always(mutex) == TRUE

\* Py_BEGIN_CRITICAL_SECTION(cell) goes on when no other thread is inside a
\* critical section of the cell
CriticalSectionCanLock(mutex) == mutex = 0

\* Py_BEGIN_CRITICAL_SECTION(cell)
Py_BEGIN_CRITICAL_SECTION(t) ==
    /\ c_pc[t] = "begin"
    /\ CriticalSectionCanLock(c_mutex)
    /\ c_mutex' = t
    /\ CellGoto(t, "body")
    /\ UNCHANGED <<c_ob_ref, c_refcnt, c_freed, c_own, c_op, c_val, c_loc, c_uaf, c_gets>>

\* Py_END_CRITICAL_SECTION()
Py_END_CRITICAL_SECTION(t) ==
    /\ c_pc[t] = "end"
    /\ c_mutex' = 0
    /\ CellGoto(t, "out")
    /\ UNCHANGED <<c_ob_ref, c_refcnt, c_freed, c_own, c_op, c_val, c_loc, c_uaf, c_gets>>

\* Py_XDECREF(o) / Py_DECREF(o): the last reference deallocates the object;
\* on an object already deallocated it is a use after free
Cell_Py_XDECREF(o) ==
    IF o = 0 THEN UNCHANGED <<c_refcnt, c_freed, c_uaf>>
    ELSE IF c_freed[o] THEN c_uaf' = TRUE /\ UNCHANGED <<c_refcnt, c_freed>>
    ELSE /\ c_refcnt' = [c_refcnt EXCEPT ![o] = @ - 1]
         /\ c_freed' = [c_freed EXCEPT ![o] = (c_refcnt[o] = 1)]
         /\ UNCHANGED c_uaf

\* Py_XNewRef(o)
Cell_Py_XNewRef(o) ==
    IF o = 0 THEN UNCHANGED <<c_refcnt, c_uaf>>
    ELSE IF c_freed[o] THEN c_uaf' = TRUE /\ UNCHANGED c_refcnt
    ELSE c_refcnt' = [c_refcnt EXCEPT ![o] = @ + 1] /\ UNCHANGED c_uaf

\* the caller receives a reference (NULL: nothing)
CellOwn(t, o) ==
    c_own' = IF o = 0 THEN c_own ELSE [c_own EXCEPT ![t][o] = @ + 1]

\* a call of PyCell_SwapTakeRef(cell, value), by itself (op = "swap") or from
\* PyCell_SetTakeRef (op = "set"): the caller gives up its reference to value
CellSwapCall(t, op, value) ==
    /\ c_pc[t] = "idle"
    /\ IF value = 0 THEN TRUE ELSE c_own[t][value] > 0
    /\ c_own' = IF value = 0 THEN c_own ELSE [c_own EXCEPT ![t][value] = @ - 1]
    /\ c_op' = [c_op EXCEPT ![t] = op]
    /\ c_val' = [c_val EXCEPT ![t] = value]
    /\ CellGoto(t, "begin")
    /\ UNCHANGED <<c_ob_ref, c_mutex, c_refcnt, c_freed, c_loc, c_uaf, c_gets>>

\* the body of PyCell_SwapTakeRef
CellSwapBody(t) ==
    \/ Py_BEGIN_CRITICAL_SECTION(t)
    \/ \* old_value = cell->ob_ref
       /\ c_pc[t] = "body"
       /\ c_loc' = [c_loc EXCEPT ![t] = c_ob_ref]
       /\ CellGoto(t, "store")
       /\ UNCHANGED <<c_ob_ref, c_mutex, c_refcnt, c_freed, c_own, c_op, c_val, c_uaf, c_gets>>
    \/ \* FT_ATOMIC_STORE_PTR_RELEASE(cell->ob_ref, value)
       /\ c_pc[t] = "store"
       /\ c_ob_ref' = c_val[t]
       /\ CellGoto(t, "end")
       /\ UNCHANGED <<c_mutex, c_refcnt, c_freed, c_own, c_op, c_val, c_loc, c_uaf, c_gets>>
    \/ Py_END_CRITICAL_SECTION(t)

\* PyCell_SwapTakeRef(cell, value) of thread t, one step at a time
PyCell_SwapTakeRef(t) ==
    /\ FrameCell
    /\ \/ \E value \in {0} \cup CellObjs : CellSwapCall(t, "swap", value)
       \/ c_op[t] = "swap" /\ CellSwapBody(t)
       \/ \* return old_value
          /\ CellAt(t, "swap", "out")
          /\ CellOwn(t, c_loc[t])
          /\ CellReturn(t)
          /\ UNCHANGED <<c_ob_ref, c_mutex, c_refcnt, c_freed, c_uaf, c_gets>>

\* PyCell_SetTakeRef(cell, value) of thread t, one step at a time
PyCell_SetTakeRef(t) ==
    /\ FrameCell
    /\ \/ \E value \in {0} \cup CellObjs : CellSwapCall(t, "set", value)
       \/ c_op[t] = "set" /\ CellSwapBody(t)
       \/ \* Py_XDECREF(old_value)
          /\ CellAt(t, "set", "out")
          /\ Cell_Py_XDECREF(c_loc[t])
          /\ CellReturn(t)
          /\ UNCHANGED <<c_ob_ref, c_mutex, c_own, c_gets>>

\* PyCell_GetRef(cell) of thread t, one step at a time
PyCell_GetRef(t) ==
    /\ FrameCell
    /\ \/ /\ c_pc[t] = "idle"
          /\ c_gets < MaxCellGets
          /\ c_gets' = c_gets + 1
          /\ c_op' = [c_op EXCEPT ![t] = "get"]
          /\ CellGoto(t, "begin")
          /\ UNCHANGED <<c_ob_ref, c_mutex, c_refcnt, c_freed, c_own, c_val, c_loc, c_uaf>>
       \/ c_op[t] = "get" /\ Py_BEGIN_CRITICAL_SECTION(t)
       \/ \* res = Py_XNewRef(cell->ob_ref): the read of cell->ob_ref
          /\ CellAt(t, "get", "body")
          /\ c_loc' = [c_loc EXCEPT ![t] = c_ob_ref]
          /\ CellGoto(t, "incref")
          /\ UNCHANGED <<c_ob_ref, c_mutex, c_refcnt, c_freed, c_own, c_op, c_val, c_uaf, c_gets>>
       \/ \* res = Py_XNewRef(cell->ob_ref): the increment
          /\ CellAt(t, "get", "incref")
          /\ Cell_Py_XNewRef(c_loc[t])
          /\ CellGoto(t, "end")
          /\ UNCHANGED <<c_ob_ref, c_mutex, c_freed, c_own, c_op, c_val, c_loc, c_gets>>
       \/ c_op[t] = "get" /\ Py_END_CRITICAL_SECTION(t)
       \/ \* return res
          /\ CellAt(t, "get", "out")
          /\ CellOwn(t, c_loc[t])
          /\ CellReturn(t)
          /\ UNCHANGED <<c_ob_ref, c_mutex, c_refcnt, c_freed, c_uaf, c_gets>>

\* thread t releases a reference it owns: Py_DECREF(o)
CellRelease(t, o) ==
    /\ FrameCell
    /\ c_pc[t] = "idle"
    /\ c_own[t][o] > 0
    /\ c_own' = [c_own EXCEPT ![t][o] = @ - 1]
    /\ Cell_Py_XDECREF(o)
    /\ UNCHANGED <<c_ob_ref, c_mutex, c_pc, c_op, c_val, c_loc, c_gets>>

CellNext ==
    \/ \E t \in CellThreads : PyCell_SwapTakeRef(t)
    \/ \E t \in CellThreads : PyCell_SetTakeRef(t)
    \/ \E t \in CellThreads : PyCell_GetRef(t)
    \/ \E t \in CellThreads, o \in CellObjs : CellRelease(t, o)

\* the references to o thread t holds inside a call: the value it gave and
\* has not stored yet, the old value or the result it has taken over
CellInFlight(t, o) ==
    (IF c_op[t] \in {"swap", "set"} /\ c_pc[t] \in {"begin", "body", "store"}
        /\ c_val[t] = o THEN 1 ELSE 0)
    + (IF c_op[t] # "" /\ c_pc[t] \in {"end", "out"} /\ c_loc[t] = o THEN 1 ELSE 0)

RECURSIVE CellHeld(_, _)
CellHeld(n, o) ==
    IF n = 0 THEN 0 ELSE c_own[n][o] + CellInFlight(n, o) + CellHeld(n - 1, o)

\* the references to o: the cell's, and those of the threads
CellHolders(o) == (IF c_ob_ref = o THEN 1 ELSE 0) + CellHeld(NCellThreads, o)

\* C40: no call touches a deallocated object; what PyCell_GetRef is about to
\* return is NULL or an object that has not been deallocated; every
\* reference stored in the cell is in exactly one place (the cell, or the one
\* caller it was handed back to), so the count of an object is the number of
\* its holders and it is deallocated when and only when that number is zero.
C40_CellRefsConserved ==
    /\ ~c_uaf
    /\ \A t \in CellThreads :
          (c_op[t] = "get" /\ c_pc[t] \in {"end", "out"} /\ c_loc[t] # 0)
              => ~c_freed[c_loc[t]]
    /\ \A o \in CellObjs :
          /\ c_refcnt[o] = CellHolders(o)
          /\ c_freed[o] <=> c_refcnt[o] = 0

\* a get has taken a reference to the object another thread stored, a third
\* call waits for the critical section, and an object replaced by
\* PyCell_SetTakeRef has been deallocated
C40_Witness ==
    /\ \E t, u \in CellThreads :
          /\ CellAt(t, "get", "end") /\ c_loc[t] # 0 /\ c_own[t][c_loc[t]] = 0
          /\ c_pc[u] = "begin" /\ c_op[u] \in {"swap", "set"}
          /\ c_mutex = t
    /\ \E o \in CellObjs : c_freed[o]

(***************************************************************************)
(* Specifications: each runs one machine, the others stay idle.            *)
(***************************************************************************)
InitRef == RefInit /\ FinIdle /\ WrIdle /\ TrIdle /\ PsIdle /\ XidInit /\ RaceIdle /\ DsIdle /\ SzIdle
    /\ RegIdle /\ CellIdle
InitFin == FinInit /\ RefIdle /\ WrIdle /\ TrIdle /\ PsIdle /\ XidInit /\ RaceIdle /\ DsIdle /\ SzIdle
    /\ RegIdle /\ CellIdle
InitWr == WrInit /\ RefIdle /\ FinIdle /\ TrIdle /\ PsIdle /\ XidInit /\ RaceIdle /\ DsIdle /\ SzIdle
    /\ RegIdle /\ CellIdle
InitTr == TrInit /\ RefIdle /\ FinIdle /\ WrIdle /\ PsIdle /\ XidInit /\ RaceIdle /\ DsIdle /\ SzIdle
    /\ RegIdle /\ CellIdle
InitRace == RaceInit /\ FinIdle /\ TrIdle /\ PsIdle /\ XidInit /\ DsIdle /\ SzIdle
    /\ RegIdle /\ CellIdle
InitDs == DsInit /\ RefIdle /\ FinIdle /\ WrIdle /\ TrIdle /\ PsIdle /\ XidInit /\ RaceIdle /\ SzIdle
    /\ RegIdle /\ CellIdle
InitPs == PsInit /\ RefIdle /\ FinIdle /\ WrIdle /\ TrIdle /\ XidInit /\ RaceIdle /\ DsIdle /\ SzIdle
    /\ RegIdle /\ CellIdle
InitSz == SzInit /\ RefIdle /\ FinIdle /\ WrIdle /\ TrIdle /\ PsIdle /\ XidInit /\ RaceIdle /\ DsIdle
    /\ RegIdle /\ CellIdle
InitReg == RegInit /\ RefIdle /\ FinIdle /\ WrIdle /\ TrIdle /\ PsIdle /\ XidInit /\ RaceIdle /\ DsIdle
    /\ SzIdle /\ CellIdle
InitCell == CellInit /\ RefIdle /\ FinIdle /\ WrIdle /\ TrIdle /\ PsIdle /\ XidInit /\ RaceIdle /\ DsIdle
    /\ SzIdle /\ RegIdle

SpecRef == InitRef /\ [][RefNext]_vars
SpecFin == InitFin /\ [][FinNext]_vars
SpecWr == InitWr /\ [][WrNext]_vars
SpecTr == InitTr /\ [][TrNext]_vars
SpecGil == InitPs /\ [][GilNext]_vars
SpecLife == InitPs /\ [][LifeNext]_vars
SpecInterp == InitPs /\ [][InterpNext]_vars
SpecIds == InitPs /\ [][IdsNext]_vars
SpecSwap == InitPs /\ [][SwapNext]_vars
SpecClear == InitPs /\ [][ClearNext]_vars
SpecXid == InitPs /\ [][XidNext]_vars
SpecXidRelease == InitPs /\ [][XidReleaseNext]_vars
SpecXidSwap == InitPs /\ [][XidSwapNext]_vars
SpecXidType == InitPs /\ [][XidTypeNext]_vars
SpecDs == InitDs /\ [][DsNext]_vars
SpecSz == InitSz /\ [][SzNext]_vars
SpecReg == InitReg /\ [][RegNext]_vars
SpecCell == InitCell /\ [][CellNext]_vars
SpecRace == InitRace /\ [][RaceNext]_vars

====
